---- MODULE Spec2Model ----
(***************************************************************************)
(* A model of the eip712 package: the typed-data signers (Signer,          *)
(* OptimizedSigner, FastSigner), the FastTypedDataEncoder with its         *)
(* process-wide cache, the domain assembler and the cycle check.           *)
(*                                                                         *)
(* Byte strings are sequences of string tokens.  Keccak256 is a free       *)
(* (injective) constructor over them, and an ECDSA signature is the        *)
(* symbolic pair (key, digest): recovery returns the key's address exactly *)
(* when it is given the digest that was signed.                            *)
(*                                                                         *)
(* A type spelling such as "Node[][2]" is the record                       *)
(* [base |-> "Node", arr |-> <<"[]", "[2]">>]: the base name and its array *)
(* suffixes from left to right, so that strings.HasSuffix and              *)
(* strings.TrimSuffix act on the last suffix only, as they do on the text. *)
(***************************************************************************)
EXTENDS Integers, Sequences, FiniteSets, TLC

VARIABLES
    heap,        \* the callers' types maps (map[string][]Type), by map id
    encCache,    \* globalEncoderCache: typeHashes, encodedTypes, dependencies
    domainTypes, \* globalTypeCache.domainTypes
    held,        \* the Signature the caller holds, with the inputs it was made from
    last,        \* the last completed call: its inputs and what it returned
    inferredTypesCache, \* inferredTypesCache.cache of fast_helpers.go
    gor,         \* the goroutines: the call each is in and the steps it has left
    mu,          \* the sync.RWMutex of each cache
    kept         \* the Message the caller keeps, with its *big.Int values

vars ==
    <<heap, encCache, domainTypes, held, last, inferredTypesCache, gor, mu, kept>>

\* the state that the calls of the signers, given a schema, leave alone
rest == <<inferredTypesCache, gor, mu, kept>>

\* the goroutines and the locks, which a call made as one step leaves alone
conc == <<gor, mu>>

-----------------------------------------------------------------------------
(* Errors are token sequences; nil is the empty one. *)

NoErr == <<>>

Wrap(prefix, err) == <<prefix>> \o err

IsErr(e) == e # NoErr

-----------------------------------------------------------------------------
(* Type spellings and fields *)

T(base) == [base |-> base, arr |-> <<>>]

Arr(t, suffix) == [base |-> t.base, arr |-> Append(t.arr, suffix)]

Field(name, type) == [Name |-> name, Type |-> type]

\* strings.HasSuffix(fieldType, "[]")
HasSuffixDyn(t) == Len(t.arr) > 0 /\ t.arr[Len(t.arr)] = "[]"

\* strings.TrimSuffix(fieldType, "[]")
TrimSuffixDyn(t) ==
    IF HasSuffixDyn(t)
    THEN [base |-> t.base, arr |-> SubSeq(t.arr, 1, Len(t.arr) - 1)]
    ELSE t

\* _, ok := types[name] for a spelling used as a map key
IsDefined(types, t) == t.arr = <<>> /\ t.base \in DOMAIN types

\* the text of a spelling, as tokens
TypeString(t) == <<t.base>> \o t.arr

\* the names of this model in the order sort.Strings puts them (byte order)
SortedNames ==
    <<"A", "B", "C", "D", "EIP712Domain", "Inner", "Message", "Node", "Outer",
      "Permit", "a", "b", "x">>

RECURSIVE SortFrom(_, _)
SortFrom(i, S) ==
    IF i > Len(SortedNames) THEN <<>>
    ELSE (IF SortedNames[i] \in S THEN <<SortedNames[i]>> ELSE <<>>)
         \o SortFrom(i + 1, S)

\* sort.Strings over a set of names
SortStrings(S) == SortFrom(1, S)

\* the orders in which a range over a Go map may visit its keys
Orders(S) ==
    {f \in [1..Cardinality(S) -> S] : \A i, j \in DOMAIN f : i # j => f[i] # f[j]}

-----------------------------------------------------------------------------
(* validateNoCycles / checkCycle *)

CycleErr(typeName) == <<"cyclic reference detected in type: ", typeName>>

IsCycleErr(e) ==
    Len(e) >= 2 /\ e[Len(e) - 1] = "cyclic reference detected in type: "

RECURSIVE checkCycle(_, _, _, _)
RECURSIVE checkCycleFields(_, _, _, _, _)

\* checkCycle without its last statement, inPath[typeName] = false
checkCycleNoPop(typeName, types, visited, inPath) ==
    IF typeName \in inPath
    THEN [err |-> CycleErr(typeName), visited |-> visited, inPath |-> inPath]
    ELSE IF typeName \in visited
    THEN [err |-> NoErr, visited |-> visited, inPath |-> inPath]
    ELSE IF typeName \in DOMAIN types
         THEN checkCycleFields(types[typeName], 1, types,
                               visited \cup {typeName}, inPath \cup {typeName})
         ELSE [err |-> NoErr, visited |-> visited \cup {typeName},
               inPath |-> inPath \cup {typeName}]

checkCycle(typeName, types, visited, inPath) ==
    IF typeName \in inPath
    THEN [err |-> CycleErr(typeName), visited |-> visited, inPath |-> inPath]
    ELSE IF typeName \in visited
    THEN [err |-> NoErr, visited |-> visited, inPath |-> inPath]
    ELSE LET Pop(r) == IF IsErr(r.err) THEN r
                       ELSE [r EXCEPT !.inPath = @ \ {typeName}]
         IN  Pop(IF typeName \in DOMAIN types
                 THEN checkCycleFields(types[typeName], 1, types,
                                       visited \cup {typeName},
                                       inPath \cup {typeName})
                 ELSE [err |-> NoErr, visited |-> visited \cup {typeName},
                       inPath |-> inPath \cup {typeName}])

\* the loop over the fields of one type, from field i on
checkCycleFields(fields, i, types, visited, inPath) ==
    IF i > Len(fields)
    THEN [err |-> NoErr, visited |-> visited, inPath |-> inPath]
    ELSE LET baseType == TrimSuffixDyn(fields[i].Type)
             Rest(r) == IF IsErr(r.err) THEN r
                        ELSE checkCycleFields(fields, i + 1, types, r.visited,
                                              r.inPath)
         IN  Rest(IF IsDefined(types, baseType)
                  THEN checkCycle(baseType.base, types, visited, inPath)
                  ELSE [err |-> NoErr, visited |-> visited, inPath |-> inPath])

\* the loop over the map's keys, in the order the runtime picked
RECURSIVE validateFrom(_, _, _, _, _)
validateFrom(order, i, types, visited, inPath) ==
    IF i > Len(order) THEN NoErr
    ELSE LET Rest(r) == IF IsErr(r.err) THEN r.err
                        ELSE validateFrom(order, i + 1, types, r.visited, r.inPath)
         IN  Rest(checkCycle(order[i], types, visited, inPath))

validateNoCycles(types, order) == validateFrom(order, 1, types, {}, {})

-----------------------------------------------------------------------------
(* Bytes, hashes and the secp256k1 primitives *)

\* crypto.Keccak256
Keccak256(b) == <<"keccak256(">> \o b \o <<")">>

\* the bytes of a Go string
Utf8(s) == <<"utf8", s>>

\* hexutil.Encode and hexutil.Decode: the text is the prefix and the digits
HexEncode(b) == [prefix |-> "0x", digits |-> b]

HexDecode(h) ==
    IF h.prefix = "0x" THEN [err |-> NoErr, out |-> h.digits]
    ELSE [err |-> <<"hex string without 0x prefix">>, out |-> <<>>]

\* the recovery id the signing primitive returns for (key, digest): 0 or 1
RecoveryId(key, hash) == Len(hash) % 2

\* crypto.Sign: r and s are determined by (key, digest); byte 64 is the recovery id
CryptoSign(hash, key) == [rs |-> <<key>> \o hash, v |-> RecoveryId(key, hash), len |-> 65]

\* r and s of a signature that no key made, by what the recovery primitive
\* does with them: r or s is zero or not below the group order; r and s are
\* in range; r is in range and so small that r plus the group order is still
\* the x coordinate of a curve point
OutOfRange == <<"forged", "out of range">>
InRange == <<"forged", "in range">>
SmallR == <<"forged", "small r">>

\* crypto.SigToPub: a recovery id above 3 is refused; recovery fails for r or
\* s out of range, and for the recovery ids 2 and 3 unless r is small; else
\* the result is the signing key when the digest is the signed one and the
\* recovery id the signer's, and the key of no signer otherwise
SigToPub(hash, sig) ==
    IF sig.v > 3 THEN [err |-> <<"invalid signature recovery id">>, out |-> ""]
    ELSE IF sig.rs = OutOfRange \/ (sig.v > 1 /\ sig.rs # SmallR)
    THEN [err |-> <<"recovery failed">>, out |-> ""]
    ELSE IF Tail(sig.rs) = hash /\ sig.v = RecoveryId(Head(sig.rs), hash)
    THEN [err |-> NoErr, out |-> Head(sig.rs)]
    ELSE [err |-> NoErr, out |-> "unrelated"]

\* crypto.PubkeyToAddress
PubkeyToAddress(key) == <<"address of", key>>

ZeroAddress == <<"address of", "">>

-----------------------------------------------------------------------------
(* Go values of a message: interface{} by dynamic type *)

VString(s) == [k |-> "string", v |-> s]
VNil == [k |-> "nil", v |-> ""]
VBool(b) == [k |-> "bool", v |-> b]
\* a big.Int: the number q * 2^256 + d, with d small
Big(q, d) == [q |-> q, d |-> d]
VBigInt(n) == [k |-> "*big.Int", v |-> Big(0, n)]
\* a *big.Int that points to 2^256 + d
VBigPow256(d) == [k |-> "*big.Int", v |-> Big(1, d)]
VMap(m) == [k |-> "map", v |-> m]
VSlice(q) == [k |-> "slice", v |-> q]
VBytes(digits, len) == [k |-> "[]uint8", v |-> [digits |-> digits, len |-> len]]
VInt(n) == [k |-> "int", v |-> n]
VFloat(text) == [k |-> "float64", v |-> text]

\* the largest integer a decimal text of the model spells
MaxNumber == 2

\* (*big.Int).String of a small number
IntString(n) == ToString(n)

\* (*big.Int).String
BigString(x) ==
    IF x.q = 0 THEN IntString(x.d)
    ELSE IntString(x.q) \o "*2^256+" \o IntString(x.d)

\* (*big.Int).Sign, up to the magnitude
BigSign(x) == IF x.q # 0 THEN x.q ELSE x.d

\* math.U256: x.And(x, 2^256 - 1), the number modulo 2^256
U256(x) == IF x.d >= 0 THEN Big(0, x.d) ELSE Big(1, x.d)

\* new(big.Int).SetString(v, 10), for the unsigned decimal texts of the model
ParseDecimal(s) ==
    IF \E n \in 0..MaxNumber : IntString(n) = s
    THEN [ok |-> TRUE, n |-> CHOOSE n \in 0..MaxNumber : IntString(n) = s]
    ELSE [ok |-> FALSE, n |-> 0]

\* common.Address values (20 bytes) and [32]byte salts, by their hex digits
ZeroAddr == "0000"
AddressValues == {ZeroAddr, "c0de", "adk1", "adk2"}

\* s.address.Hex() of the signer that holds key
AddressHex(key) == "0x" \o "ad" \o key
ZeroSalt == "00"
SaltValues == {ZeroSalt, "5a17"}

\* common.Address.Hex, and "0x" + hex.EncodeToString / hexutil.Encode of bytes
HexText(digits) == "0x" \o digits

\* common.IsHexAddress and common.HexToAddress
IsHexAddress(s) == \E a \in AddressValues : HexText(a) = s \/ a = s
HexToAddress(s) == CHOOSE a \in AddressValues : HexText(a) = s \/ a = s

\* strings.HasPrefix(v, "0x") followed by hex.DecodeString(v[2:]): the byte
\* strings of the model that a 0x text spells, each with its length
HexBytes ==
    [a \in AddressValues |-> [digits |-> a, len |-> 20]]
    @@ [x \in SaltValues |-> [digits |-> x, len |-> 32]]

\* a text that starts with 0x and goes on with something that is no hex
InvalidHexTexts == {"0xzz"}

\* the text is 0x followed by hex digits
IsHexText(s) == \E d \in DOMAIN HexBytes : HexText(d) = s

HasPrefix0x(s) == IsHexText(s) \/ s \in InvalidHexTexts

HexDecodeString(s) == HexBytes[CHOOSE d \in DOMAIN HexBytes : HexText(d) = s]

\* new(big.Int).SetString(v[2:], 16), for the 0x texts of the model: the
\* digits that are hexadecimal, each with its number
HexNumbers ==
    ("c0de" :> 49374) @@ ("5a17" :> 23063) @@ ("0000" :> 0) @@ ("00" :> 0)
    @@ ("adk1" :> 44289) @@ ("adk2" :> 44290)

ParseHex(s) ==
    IF \E d \in DOMAIN HexNumbers : HexText(d) = s
    THEN [ok |-> TRUE, n |-> HexNumbers[CHOOSE d \in DOMAIN HexNumbers : HexText(d) = s]]
    ELSE [ok |-> FALSE, n |-> 0]

\* the spellings that strings.HasPrefix finds to start with bytes, uint, int
BytesSpellings == {"bytes", "bytes0", "bytes1", "bytes2", "bytes32", "bytes33"}
UintSpellings == {"uint8", "uint256", "uint257", "uint 256"}
IntSpellings == {"int8", "int256", "int512"}

\* regexp ^bytes(\d+)$ and strconv.Atoi
FixedBytesSize ==
    [bytes0 |-> 0, bytes1 |-> 1, bytes2 |-> 2, bytes32 |-> 32, bytes33 |-> 33]

\* 32-byte words
Word(n) == <<"word", IntString(n)>>
\* math.PaddedBigBytes(x, 32) of a number below 2^256
BigWord(x) == IF x.q = 0 THEN Word(x.d) ELSE <<"word", "2^256", IntString(x.d)>>
AddressWord(a) == <<"pad12", a>>
BytesWord(b) == <<b.digits, "pad32">>

-----------------------------------------------------------------------------
(* fast_encoder.go: the conversion helpers and the primitive encoders *)

toAddress(value) ==
    IF value.k = "string"
    THEN IF IsHexAddress(value.v)
         THEN [err |-> NoErr, out |-> HexToAddress(value.v)]
         ELSE [err |-> <<"invalid address: ", value.v>>, out |-> ZeroAddr]
    ELSE [err |-> <<"invalid address type: ", value.k>>, out |-> ZeroAddr]

toBool(value) ==
    IF value.k = "bool" THEN value.v
    ELSE IF value.k = "string" THEN value.v = "true" \/ value.v = "1"
    ELSE FALSE

\* a string as it is; anything else through fmt ("%v" of nil is "<nil>")
toString(value) ==
    IF value.k = "string" THEN value.v
    ELSE IF value.k = "nil" THEN "<nil>"
    ELSE IF value.k = "bool" THEN (IF value.v THEN "true" ELSE "false")
    ELSE IF value.k = "*big.Int" THEN BigString(value.v)
    ELSE IF value.k = "[]uint8" THEN "%v of bytes " \o value.v.digits
    ELSE "%v of a " \o value.k

toBytes(value) ==
    IF value.k = "[]uint8" THEN [err |-> NoErr, out |-> value.v]
    ELSE IF value.k = "string"
    THEN IF HasPrefix0x(value.v)
         THEN IF IsHexText(value.v)
              THEN [err |-> NoErr, out |-> HexDecodeString(value.v)]
              ELSE [err |-> <<"encoding/hex: invalid byte">>,
                    out |-> [digits |-> "", len |-> 0]]
         ELSE [err |-> NoErr, out |-> [digits |-> value.v, len |-> Len(value.v)]]
    ELSE [err |-> <<"invalid bytes type: ", value.k>>, out |-> [digits |-> "", len |-> 0]]

toBigInt(value) ==
    IF value.k = "*big.Int" THEN [err |-> NoErr, out |-> value.v]
    ELSE IF value.k = "string"
    THEN IF HasPrefix0x(value.v)
         THEN IF ParseHex(value.v).ok
              THEN [err |-> NoErr, out |-> Big(0, ParseHex(value.v).n)]
              ELSE [err |-> <<"invalid hex number: ", value.v>>, out |-> Big(0, 0)]
         ELSE IF ParseDecimal(value.v).ok
         THEN [err |-> NoErr, out |-> Big(0, ParseDecimal(value.v).n)]
         ELSE [err |-> <<"invalid decimal number: ", value.v>>, out |-> Big(0, 0)]
    ELSE [err |-> <<"invalid integer type: ", value.k>>, out |-> Big(0, 0)]

encodeFixedBytes(fieldType, value) ==
    IF fieldType.arr # <<>> \/ fieldType.base \notin DOMAIN FixedBytesSize
    THEN [err |-> <<"invalid bytes type: ">> \o TypeString(fieldType), out |-> <<>>]
    ELSE LET size == FixedBytesSize[fieldType.base]
             b == toBytes(value)
         IN  IF size < 1 \/ size > 32
             THEN [err |-> <<"invalid bytes size: ", fieldType.base>>, out |-> <<>>]
             ELSE IF IsErr(b.err) THEN [err |-> b.err, out |-> <<>>]
             ELSE IF b.out.len > size
             THEN [err |-> <<"bytes too long for ", fieldType.base>>, out |-> <<>>]
             ELSE [err |-> NoErr, out |-> BytesWord(b.out)]

encodeInteger(fieldType, value) ==
    LET n == toBigInt(value)
    IN  IF IsErr(n.err) THEN [err |-> n.err, out |-> <<>>]
        ELSE IF fieldType.base \in UintSpellings /\ BigSign(n.out) < 0
        THEN [err |-> <<"negative value for unsigned type ">> \o TypeString(fieldType),
              out |-> <<>>]
        ELSE [err |-> NoErr, out |-> BigWord(U256(n.out))]

\* the *big.Int the caller passed, after encodeInteger: toBigInt returns the
\* caller's pointer and math.U256Bytes reduces the number it points to in place
encodeIntegerWrites(fieldType, value) ==
    IF value.k = "*big.Int" /\ ~IsErr(encodeInteger(fieldType, value).err)
    THEN [value EXCEPT !.v = U256(@)]
    ELSE value

encodePrimitive(fieldType, value) ==
    IF fieldType = T("address")
    THEN LET a == toAddress(value)
         IN  IF IsErr(a.err) THEN [err |-> a.err, out |-> <<>>]
             ELSE [err |-> NoErr, out |-> AddressWord(a.out)]
    ELSE IF fieldType = T("bool")
    THEN [err |-> NoErr, out |-> Word(IF toBool(value) THEN 1 ELSE 0)]
    ELSE IF fieldType = T("string")
    THEN [err |-> NoErr, out |-> Keccak256(Utf8(toString(value)))]
    ELSE IF fieldType = T("bytes")
    THEN LET b == toBytes(value)
         IN  IF IsErr(b.err) THEN [err |-> b.err, out |-> <<>>]
             ELSE [err |-> NoErr, out |-> Keccak256(<<b.out.digits>>)]
    ELSE IF fieldType.base \in BytesSpellings
    THEN encodeFixedBytes(fieldType, value)
    ELSE IF fieldType.base \in UintSpellings \cup IntSpellings
    THEN encodeInteger(fieldType, value)
    ELSE [err |-> <<"unsupported type: ">> \o TypeString(fieldType), out |-> <<>>]

-----------------------------------------------------------------------------
(* fast_encoder.go: the process-wide cache and the type encoder *)

EmptyMap == [x \in {} |-> x]

Put(m, key, value) ==
    [x \in DOMAIN m \cup {key} |-> IF x = key THEN value ELSE m[x]]

\* globalEncoderCache as the package initialises it
EmptyCache ==
    [typeHashes |-> EmptyMap, encodedTypes |-> EmptyMap, dependencies |-> EmptyMap]

RECURSIVE findDependencies(_, _, _)
RECURSIVE findDependenciesFields(_, _, _, _)

findDependencies(types, typeName, deps) ==
    IF typeName \in deps THEN deps
    ELSE IF typeName \notin DOMAIN types THEN deps
    ELSE findDependenciesFields(types, types[typeName], 1, deps \cup {typeName})

\* the loop over the fields, from field i on
findDependenciesFields(types, fields, i, deps) ==
    IF i > Len(fields) THEN deps
    ELSE LET fieldType == TrimSuffixDyn(fields[i].Type)
         IN  findDependenciesFields(types, fields, i + 1,
                 IF IsDefined(types, fieldType)
                 THEN findDependencies(types, fieldType.base, deps)
                 ELSE deps)

dependencies(types, cache, typeName) ==
    IF typeName \in DOMAIN cache.dependencies
    THEN [out |-> cache.dependencies[typeName], cache |-> cache]
    ELSE LET Store(result) ==
                 [out |-> result,
                  cache |-> [cache EXCEPT !.dependencies = Put(@, typeName, result)]]
         IN  Store(SortStrings(findDependencies(types, typeName, {})))

\* strings.Join(fieldParts, ","), each part field.Type + " " + field.Name
RECURSIVE JoinFields(_, _)
JoinFields(fields, i) ==
    IF i > Len(fields) THEN <<>>
    ELSE (IF i > 1 THEN <<",">> ELSE <<>>)
         \o TypeString(fields[i].Type) \o <<" ", fields[i].Name>>
         \o JoinFields(fields, i + 1)

\* name + "(" + strings.Join(fieldParts, ",") + ")"
Declaration(name, fields) == <<name, "(">> \o JoinFields(fields, 1) \o <<")">>

\* the declarations of the dependencies other than typeName; e.Types[dep] of a
\* name the map does not hold is the nil slice
RECURSIVE DependencyParts(_, _, _, _)
DependencyParts(types, typeName, deps, i) ==
    IF i > Len(deps) THEN <<>>
    ELSE (IF deps[i] = typeName THEN <<>>
          ELSE Declaration(deps[i],
                   IF deps[i] \in DOMAIN types THEN types[deps[i]] ELSE <<>>))
         \o DependencyParts(types, typeName, deps, i + 1)

encodeType(types, cache, typeName) ==
    IF typeName \in DOMAIN cache.encodedTypes
    THEN [err |-> NoErr, out |-> cache.encodedTypes[typeName], cache |-> cache]
    ELSE LET Store(d, encoded) ==
                 [err |-> NoErr, out |-> encoded,
                  cache |-> [d.cache EXCEPT
                                !.encodedTypes = Put(@, typeName, encoded)]]
             Build(d) ==
                 IF typeName \notin DOMAIN types
                 THEN [err |-> <<"type not found: ", typeName>>, out |-> <<>>,
                       cache |-> d.cache]
                 ELSE Store(d, Declaration(typeName, types[typeName])
                               \o DependencyParts(types, typeName, d.out, 1))
         IN  Build(dependencies(types, cache, typeName))

typeHash(types, cache, typeName) ==
    IF typeName \in DOMAIN cache.typeHashes
    THEN [err |-> NoErr, out |-> cache.typeHashes[typeName], cache |-> cache]
    ELSE LET Store(e, hash) ==
                 [err |-> NoErr, out |-> hash,
                  cache |-> [e.cache EXCEPT !.typeHashes = Put(@, typeName, hash)]]
             Compute(e) ==
                 IF IsErr(e.err)
                 THEN [err |-> e.err, out |-> <<>>, cache |-> e.cache]
                 ELSE Store(e, Keccak256(e.out))
         IN  Compute(encodeType(types, cache, typeName))

-----------------------------------------------------------------------------
(* fast_encoder.go: the value encoder *)

RECURSIVE encodeData(_, _, _, _)
RECURSIVE encodeDataFields(_, _, _, _, _, _)
RECURSIVE encodeValue(_, _, _, _)
RECURSIVE encodeArrayElements(_, _, _, _, _, _)

\* encodeData with no keccak256 over what it wrote
hashStructWithoutDigest(types, cache, primaryType, data) ==
    encodeData(types, cache, primaryType, data)

hashStruct(types, cache, primaryType, data) ==
    LET Digest(r) ==
            IF IsErr(r.err) THEN r
            ELSE [err |-> NoErr, out |-> Keccak256(r.out), cache |-> r.cache]
    IN  Digest(encodeData(types, cache, primaryType, data))

encodeData(types, cache, primaryType, data) ==
    LET Fields(th) ==
            IF IsErr(th.err) THEN th
            ELSE IF primaryType \notin DOMAIN types
            THEN [err |-> <<"type not found: ", primaryType>>, out |-> <<>>,
                  cache |-> th.cache]
            ELSE encodeDataFields(types, th.cache, types[primaryType], 1, data,
                                  th.out)
    IN  Fields(typeHash(types, cache, primaryType))

\* the loop over the fields, from field i on, buf holding what was written
encodeDataFields(types, cache, fields, i, data, buf) ==
    IF i > Len(fields) THEN [err |-> NoErr, out |-> buf, cache |-> cache]
    ELSE IF fields[i].Name \notin DOMAIN data
    THEN [err |-> <<"field not found in data: ", fields[i].Name>>, out |-> <<>>,
          cache |-> cache]
    ELSE LET Rest(r) ==
                 IF IsErr(r.err)
                 THEN [err |-> <<"failed to encode field: ", fields[i].Name>>
                               \o r.err,
                       out |-> <<>>, cache |-> r.cache]
                 ELSE encodeDataFields(types, r.cache, fields, i + 1, data,
                                       buf \o r.out)
         IN  Rest(encodeValue(types, cache, fields[i].Type, data[fields[i].Name]))

encodeStruct(types, cache, fieldType, value) ==
    IF value.k # "map"
    THEN [err |-> <<"invalid struct value type: ", value.k>>, out |-> <<>>,
          cache |-> cache]
    ELSE hashStruct(types, cache, fieldType.base, value.v)

\* reflect.ValueOf(value): the kind is reflect.Slice for a slice of any
\* element type, a []byte included, whose elements are uint8 values
IsSlice(value) == value.k \in {"slice", "[]uint8"}

SliceElements(value) ==
    IF value.k = "slice" THEN value.v
    ELSE [i \in 1..value.v.len |-> [k |-> "uint8", v |-> value.v.digits]]

encodeArray(types, cache, fieldType, value) ==
    IF ~IsSlice(value)
    THEN [err |-> <<"expected slice for array type: ">> \o TypeString(fieldType),
          out |-> <<>>, cache |-> cache]
    ELSE LET Digest(r) ==
                 IF IsErr(r.err) THEN r
                 ELSE [err |-> NoErr, out |-> Keccak256(r.out), cache |-> r.cache]
         IN  Digest(encodeArrayElements(types, cache, TrimSuffixDyn(fieldType),
                                        SliceElements(value), 1, <<>>))

\* the loop over the elements, from element i on
encodeArrayElements(types, cache, elementType, elems, i, buf) ==
    IF i > Len(elems) THEN [err |-> NoErr, out |-> buf, cache |-> cache]
    ELSE IF elementType = T("string") /\ elems[i].k = "string"
    THEN encodeArrayElements(types, cache, elementType, elems, i + 1,
                             buf \o Keccak256(Utf8(elems[i].v)))
    ELSE LET Rest(r) ==
                 IF IsErr(r.err)
                 THEN [err |-> <<"failed to encode array element: ">> \o r.err,
                       out |-> <<>>, cache |-> r.cache]
                 ELSE encodeArrayElements(types, r.cache, elementType, elems,
                                          i + 1, buf \o r.out)
         IN  Rest(encodeValue(types, cache, elementType, elems[i]))

encodeValue(types, cache, fieldType, value) ==
    IF HasSuffixDyn(fieldType) THEN encodeArray(types, cache, fieldType, value)
    ELSE IF IsDefined(types, fieldType)
    THEN encodeStruct(types, cache, fieldType, value)
    ELSE LET WithCache(p) == [err |-> p.err, out |-> p.out, cache |-> cache]
         IN  WithCache(encodePrimitive(fieldType, value))

\* What the encoder leaves in the caller's message: the value tree after the
\* same traversal, which ends at the first error.
RECURSIVE encodeDataWrites(_, _, _, _, _)
RECURSIVE encodeArrayWrites(_, _, _, _, _)
RECURSIVE encodeValueWrites(_, _, _, _)

\* data after the loop of encodeData over the fields, from field i on
encodeDataWrites(types, cache, fields, i, data) ==
    IF i > Len(fields) \/ fields[i].Name \notin DOMAIN data THEN data
    ELSE LET Rest(r, after) ==
                 IF IsErr(r.err) THEN after
                 ELSE encodeDataWrites(types, r.cache, fields, i + 1, after)
         IN  Rest(encodeValue(types, cache, fields[i].Type, data[fields[i].Name]),
                  Put(data, fields[i].Name,
                      encodeValueWrites(types, cache, fields[i].Type,
                                        data[fields[i].Name])))

\* the elements after the loop of encodeArray, from element i on
encodeArrayWrites(types, cache, elementType, elems, i) ==
    IF i > Len(elems) THEN elems
    ELSE IF elementType = T("string") /\ elems[i].k = "string"
    THEN encodeArrayWrites(types, cache, elementType, elems, i + 1)
    ELSE LET Rest(r, after) ==
                 IF IsErr(r.err) THEN after
                 ELSE encodeArrayWrites(types, r.cache, elementType, after, i + 1)
         IN  Rest(encodeValue(types, cache, elementType, elems[i]),
                  [elems EXCEPT ![i] =
                      encodeValueWrites(types, cache, elementType, elems[i])])

\* value after encodeValue
encodeValueWrites(types, cache, fieldType, value) ==
    IF HasSuffixDyn(fieldType)
    THEN IF value.k # "slice" THEN value
         ELSE VSlice(encodeArrayWrites(types, cache, TrimSuffixDyn(fieldType),
                                       value.v, 1))
    ELSE IF IsDefined(types, fieldType)
    THEN LET Fields(h) ==
                 IF IsErr(h.err) THEN value
                 ELSE VMap(encodeDataWrites(types, h.cache, types[fieldType.base], 1,
                                            value.v))
         IN  IF value.k # "map" THEN value
             ELSE Fields(typeHash(types, cache, fieldType.base))
    ELSE IF fieldType.base \in UintSpellings \cup IntSpellings
    THEN encodeIntegerWrites(fieldType, value)
    ELSE value

-----------------------------------------------------------------------------
(* The domain assembler: eip712.go, optimizations.go and fast_encoder.go *)

\* a Domain value: ChainID is <<>> for a nil *big.Int and <<n>> for a pointer to n
Domain(name, version, chainID, verifyingContract, salt) ==
    [Name |-> name, Version |-> version, ChainID |-> chainID,
     VerifyingContract |-> verifyingContract, Salt |-> salt]

\* buildDomainTypesStatic with a zero chain id taken for an unset one
buildDomainTypesStaticNonzeroChainID(domain) ==
    <<Field("name", T("string")), Field("version", T("string"))>>
    \o (IF domain.ChainID # <<>> /\ domain.ChainID # <<0>>
        THEN <<Field("chainId", T("uint256"))>> ELSE <<>>)
    \o (IF domain.VerifyingContract # ZeroAddr
        THEN <<Field("verifyingContract", T("address"))>> ELSE <<>>)
    \o (IF domain.Salt # ZeroSalt
        THEN <<Field("salt", T("bytes32"))>> ELSE <<>>)

\* buildDomainTypesStatic
buildDomainTypesStatic(domain) ==
    <<Field("name", T("string")), Field("version", T("string"))>>
    \o (IF domain.ChainID # <<>>
        THEN <<Field("chainId", T("uint256"))>> ELSE <<>>)
    \o (IF domain.VerifyingContract # ZeroAddr
        THEN <<Field("verifyingContract", T("address"))>> ELSE <<>>)
    \o (IF domain.Salt # ZeroSalt
        THEN <<Field("salt", T("bytes32"))>> ELSE <<>>)

\* (*Signer).buildDomainTypes
buildDomainTypes(domain) == buildDomainTypesStatic(domain)

\* (*FastTypedDataEncoder).buildDomainTypes
encoderBuildDomainTypes(domain) ==
    <<Field("name", T("string")), Field("version", T("string"))>>
    \o (IF domain.ChainID # <<>>
        THEN <<Field("chainId", T("uint256"))>> ELSE <<>>)
    \o (IF domain.VerifyingContract # ZeroAddr
        THEN <<Field("verifyingContract", T("address"))>> ELSE <<>>)
    \o (IF domain.Salt # ZeroSalt
        THEN <<Field("salt", T("bytes32"))>> ELSE <<>>)

\* domainToAPITypesStatic without its ChainID branch
domainToAPITypesStaticWithoutChainID(domain) ==
    [Name |-> domain.Name,
     Version |-> domain.Version,
     ChainId |-> <<>>,
     VerifyingContract |-> IF domain.VerifyingContract # ZeroAddr
                           THEN HexText(domain.VerifyingContract) ELSE "",
     Salt |-> IF domain.Salt # ZeroSalt THEN HexText(domain.Salt) ELSE ""]

\* apitypes.TypedDataDomain: an unset ChainId is <<>>, an unset text is ""
domainToAPITypesStatic(domain) ==
    [Name |-> domain.Name,
     Version |-> domain.Version,
     ChainId |-> IF domain.ChainID # <<>> THEN domain.ChainID ELSE <<>>,
     VerifyingContract |-> IF domain.VerifyingContract # ZeroAddr
                           THEN HexText(domain.VerifyingContract) ELSE "",
     Salt |-> IF domain.Salt # ZeroSalt THEN HexText(domain.Salt) ELSE ""]

\* (*Signer).domainToAPITypes
domainToAPITypes(domain) ==
    [Name |-> domain.Name,
     Version |-> domain.Version,
     ChainId |-> IF domain.ChainID # <<>> THEN domain.ChainID ELSE <<>>,
     VerifyingContract |-> IF domain.VerifyingContract # ZeroAddr
                           THEN HexText(domain.VerifyingContract) ELSE "",
     Salt |-> IF domain.Salt # ZeroSalt THEN HexText(domain.Salt) ELSE ""]

\* (*FastTypedDataEncoder).domainToMap
domainToMap(domain) ==
    [f \in {"name", "version"}
           \cup (IF domain.ChainID # <<>> THEN {"chainId"} ELSE {})
           \cup (IF domain.VerifyingContract # ZeroAddr
                 THEN {"verifyingContract"} ELSE {})
           \cup (IF domain.Salt # ZeroSalt THEN {"salt"} ELSE {}) |->
        IF f = "name" THEN VString(domain.Name)
        ELSE IF f = "version" THEN VString(domain.Version)
        ELSE IF f = "chainId" THEN VString(IntString(domain.ChainID[1]))
        ELSE IF f = "verifyingContract" THEN VString(HexText(domain.VerifyingContract))
        ELSE VString(HexText(domain.Salt))]

\* domainCacheKey: the text written to the buffer
domainCacheKey(domain) ==
    domain.Name \o "|" \o domain.Version
    \o (IF domain.ChainID # <<>> THEN "|" \o IntString(domain.ChainID[1]) ELSE "")
    \o (IF domain.VerifyingContract # ZeroAddr
        THEN "|" \o HexText(domain.VerifyingContract) ELSE "")
    \o (IF domain.Salt # ZeroSalt THEN "|" \o domain.Salt ELSE "")

\* (*OptimizedSigner).getCachedDomainTypes over globalTypeCache.domainTypes
getCachedDomainTypes(cache, domain) ==
    LET key == domainCacheKey(domain)
    IN  IF key \in DOMAIN cache
        THEN [out |-> cache[key], cache |-> cache]
        ELSE [out |-> buildDomainTypes(domain),
              cache |-> Put(cache, key, buildDomainTypes(domain))]

-----------------------------------------------------------------------------
(* apitypes.TypedDataAndHash of go-ethereum, which Signer and OptimizedSigner *)
(* call: the package holds no code of it, and it is modelled from sections   *)
(* 4.1 to 4.5 of the specification.                                          *)

\* TypedDataDomain.Map: the fields that are set
apiDomainMap(d) ==
    [f \in (IF d.Name # "" THEN {"name"} ELSE {})
           \cup (IF d.Version # "" THEN {"version"} ELSE {})
           \cup (IF d.ChainId # <<>> THEN {"chainId"} ELSE {})
           \cup (IF d.VerifyingContract # "" THEN {"verifyingContract"} ELSE {})
           \cup (IF d.Salt # "" THEN {"salt"} ELSE {}) |->
        IF f = "name" THEN VString(d.Name)
        ELSE IF f = "version" THEN VString(d.Version)
        ELSE IF f = "chainId" THEN VBigInt(d.ChainId[1])
        ELSE IF f = "verifyingContract" THEN VString(d.VerifyingContract)
        ELSE VString(d.Salt)]

RECURSIVE apiDependencies(_, _, _)
RECURSIVE apiDependenciesFields(_, _, _, _)

\* Dependencies: through struct fields and any array suffix
apiDependencies(types, typeName, deps) ==
    IF typeName \in deps \/ typeName \notin DOMAIN types THEN deps
    ELSE apiDependenciesFields(types, types[typeName], 1, deps \cup {typeName})

apiDependenciesFields(types, fields, i, deps) ==
    IF i > Len(fields) THEN deps
    ELSE apiDependenciesFields(types, fields, i + 1,
             apiDependencies(types, fields[i].Type.base, deps))

RECURSIVE apiDeclarations(_, _, _)
apiDeclarations(types, names, i) ==
    IF i > Len(names) THEN <<>>
    ELSE Declaration(names[i], types[names[i]]) \o apiDeclarations(types, names, i + 1)

\* EncodeType: the type first, then its other dependencies in lexicographic order
apiEncodeType(types, typeName) ==
    Declaration(typeName, types[typeName])
    \o apiDeclarations(types,
           SortStrings(apiDependencies(types, typeName, {}) \ {typeName}), 1)

apiTypeHash(types, typeName) == Keccak256(apiEncodeType(types, typeName))

\* the legal integer spellings and their widths
apiIntegerSpellings == {"uint8", "uint256", "int8", "int256"}

\* the primitive codec of section 4.1 with the leaf spellings of section 6
apiEncodePrimitive(fieldType, value) ==
    IF fieldType = T("address")
    THEN IF value.k = "string" /\ IsHexAddress(value.v)
         THEN [err |-> NoErr, out |-> AddressWord(HexToAddress(value.v))]
         ELSE [err |-> <<"value mismatch: address">>, out |-> <<>>]
    ELSE IF fieldType = T("bool")
    THEN IF value.k = "bool" \/ (value.k = "string"
                                 /\ value.v \in {"true", "1", "false", "0"})
         THEN [err |-> NoErr, out |-> Word(IF toBool(value) THEN 1 ELSE 0)]
         ELSE [err |-> <<"value mismatch: bool">>, out |-> <<>>]
    ELSE IF fieldType = T("string")
    THEN IF value.k = "string"
         THEN [err |-> NoErr, out |-> Keccak256(Utf8(value.v))]
         ELSE [err |-> <<"value mismatch: string">>, out |-> <<>>]
    ELSE IF fieldType = T("bytes")
    THEN IF value.k = "string" /\ IsHexText(value.v)
         THEN [err |-> NoErr, out |-> Keccak256(<<HexDecodeString(value.v).digits>>)]
         ELSE [err |-> <<"value mismatch: bytes">>, out |-> <<>>]
    ELSE IF fieldType.arr = <<>> /\ fieldType.base \in DOMAIN FixedBytesSize
            /\ FixedBytesSize[fieldType.base] \in 1..32
    THEN IF value.k = "string" /\ IsHexText(value.v)
            /\ HexDecodeString(value.v).len <= FixedBytesSize[fieldType.base]
         THEN [err |-> NoErr, out |-> BytesWord(HexDecodeString(value.v))]
         ELSE [err |-> <<"value mismatch: ", fieldType.base>>, out |-> <<>>]
    ELSE IF fieldType.arr = <<>> /\ fieldType.base \in apiIntegerSpellings
    THEN IF value.k = "*big.Int" /\ value.v.q = 0 /\ value.v.d >= 0
         THEN [err |-> NoErr, out |-> Word(value.v.d)]
         ELSE IF value.k = "string" /\ ParseDecimal(value.v).ok
         THEN [err |-> NoErr, out |-> Word(ParseDecimal(value.v).n)]
         ELSE [err |-> <<"value mismatch: ", fieldType.base>>, out |-> <<>>]
    ELSE [err |-> <<"invalid schema: ">> \o TypeString(fieldType), out |-> <<>>]

RECURSIVE apiHashStruct(_, _, _)
RECURSIVE apiEncodeFields(_, _, _, _, _)
RECURSIVE apiEncodeField(_, _, _)
RECURSIVE apiEncodeElements(_, _, _, _, _)

\* HashStruct: keccak256(typeHash || fields), the value holding exactly the
\* declared fields
apiHashStruct(types, typeName, data) ==
    IF typeName \notin DOMAIN types
    THEN [err |-> <<"invalid schema: unknown type ", typeName>>, out |-> <<>>]
    ELSE IF DOMAIN data # {types[typeName][i].Name : i \in DOMAIN types[typeName]}
    THEN [err |-> <<"value mismatch: missing or unexpected field">>, out |-> <<>>]
    ELSE LET r == apiEncodeFields(types, types[typeName], 1, data,
                                  apiTypeHash(types, typeName))
         IN  IF IsErr(r.err) THEN r ELSE [err |-> NoErr, out |-> Keccak256(r.out)]

apiEncodeFields(types, fields, i, data, buf) ==
    IF i > Len(fields) THEN [err |-> NoErr, out |-> buf]
    ELSE LET r == apiEncodeField(types, fields[i].Type, data[fields[i].Name])
         IN  IF IsErr(r.err) THEN r
             ELSE apiEncodeFields(types, fields, i + 1, data, buf \o r.out)

\* encodeField: an array by its last suffix, a struct reference, or a primitive
apiEncodeField(types, fieldType, value) ==
    IF fieldType.arr # <<>>
    THEN LET suffix == fieldType.arr[Len(fieldType.arr)]
             elementType == [base |-> fieldType.base,
                             arr |-> SubSeq(fieldType.arr, 1, Len(fieldType.arr) - 1)]
         IN  IF value.k # "slice"
             THEN [err |-> <<"value mismatch: not a sequence">>, out |-> <<>>]
             ELSE IF suffix = "[2]" /\ Len(value.v) # 2
             THEN [err |-> <<"value mismatch: array length">>, out |-> <<>>]
             ELSE LET r == apiEncodeElements(types, elementType, value.v, 1, <<>>)
                  IN  IF IsErr(r.err) THEN r
                      ELSE [err |-> NoErr, out |-> Keccak256(r.out)]
    ELSE IF fieldType.base \in DOMAIN types
    THEN IF value.k # "map"
         THEN [err |-> <<"value mismatch: not a mapping">>, out |-> <<>>]
         ELSE apiHashStruct(types, fieldType.base, value.v)
    ELSE apiEncodePrimitive(fieldType, value)

apiEncodeElements(types, elementType, elems, i, buf) ==
    IF i > Len(elems) THEN [err |-> NoErr, out |-> buf]
    ELSE LET r == apiEncodeField(types, elementType, elems[i])
         IN  IF IsErr(r.err) THEN r
             ELSE apiEncodeElements(types, elementType, elems, i + 1, buf \o r.out)

\* TypedDataAndHash: keccak256(0x19 0x01 || domainSeparator || hashStruct(message))
TypedDataAndHash(types, domain, primaryType, message) ==
    LET ds == apiHashStruct(types, "EIP712Domain", apiDomainMap(domain))
    IN  IF IsErr(ds.err) THEN ds
        ELSE LET mh == apiHashStruct(types, primaryType, message)
             IN  IF IsErr(mh.err) THEN mh
                 ELSE [err |-> NoErr,
                       out |-> Keccak256(<<"0x19", "0x01">> \o ds.out \o mh.out)]

-----------------------------------------------------------------------------
(* FastTypedDataEncoder.Hash *)

\* what a call assembled for the domain: whether it synthesized EIP712Domain,
\* the EIP712Domain type it hashed with and the keys of the domain value
NoTypedData == [synth |-> FALSE, type |-> <<>>, keys |-> {}]

TypedData(types, domainType, domainValue) ==
    [synth |-> "EIP712Domain" \notin DOMAIN types,
     type |-> IF "EIP712Domain" \in DOMAIN types THEN types["EIP712Domain"]
              ELSE domainType,
     keys |-> DOMAIN domainValue]

\* its result: the error, the digest, the cache and the caller's types map as
\* the call leaves them
Hash(types, domain, primaryType, message, cache, order) ==
    LET td == TypedData(types, encoderBuildDomainTypes(domain), domainToMap(domain))
        types1 == IF "EIP712Domain" \in DOMAIN types THEN types
                  ELSE Put(types, "EIP712Domain", encoderBuildDomainTypes(domain))
        Combine(ds, mh) ==
            IF IsErr(mh.err)
            THEN [err |-> Wrap("failed to hash message: ", mh.err), out |-> <<>>,
                  cache |-> mh.cache, types |-> types1, td |-> td]
            ELSE [err |-> NoErr,
                  out |-> Keccak256(<<"0x19", "0x01">> \o ds.out \o mh.out),
                  cache |-> mh.cache, types |-> types1, td |-> td]
        HashMessage(ds) ==
            IF IsErr(ds.err)
            THEN [err |-> Wrap("failed to hash domain: ", ds.err), out |-> <<>>,
                  cache |-> ds.cache, types |-> types1, td |-> td]
            ELSE Combine(ds, hashStruct(types1, ds.cache, primaryType, message))
        HashDomain(v) ==
            IF IsErr(v)
            THEN [err |-> v, out |-> <<>>, cache |-> cache, types |-> types,
                  td |-> NoTypedData]
            ELSE HashMessage(hashStruct(types1, cache, "EIP712Domain",
                                        domainToMap(domain)))
    IN  HashDomain(validateNoCycles(types, order))

\* the caller's message after Hash: hashStruct of the domain reads a map that
\* domainToMap made, hashStruct of the message reads the caller's own
HashWrites(types, domain, primaryType, message, cache, order) ==
    LET types1 == IF "EIP712Domain" \in DOMAIN types THEN types
                  ELSE Put(types, "EIP712Domain", encoderBuildDomainTypes(domain))
        Fields(h) ==
            IF IsErr(h.err) \/ primaryType \notin DOMAIN types1 THEN message
            ELSE encodeDataWrites(types1, h.cache, types1[primaryType], 1, message)
        HashMessage(ds) ==
            IF IsErr(ds.err) THEN message
            ELSE Fields(typeHash(types1, ds.cache, primaryType))
    IN  IF IsErr(validateNoCycles(types, order)) THEN message
        ELSE HashMessage(hashStruct(types1, cache, "EIP712Domain",
                                    domainToMap(domain)))

-----------------------------------------------------------------------------
(* The signers: eip712.go, optimizations.go, fast_signer.go *)

\* a nil *Signature
NilSignature ==
    [R |-> HexEncode(<<>>), S |-> HexEncode(<<>>), V |-> 0, Hash |-> HexEncode(<<>>),
     Bytes |-> HexEncode([rs |-> <<>>, v |-> 0, len |-> 0])]

\* NewSignature without the statement signature[64] += 27
NewSignatureWithoutOffset(hash, key) ==
    LET signature == CryptoSign(hash, key)
    IN  [R |-> HexEncode(<<"r">> \o signature.rs),
         S |-> HexEncode(<<"s">> \o signature.rs),
         V |-> signature.v,
         Hash |-> HexEncode(hash),
         Bytes |-> HexEncode(signature)]

\* crypto.Sign, signature[64] += 27, and the Signature built from the 65 bytes
NewSignature(hash, key) ==
    LET signature == [CryptoSign(hash, key) EXCEPT !.v = (@ + 27) % 256]
    IN  [R |-> HexEncode(<<"r">> \o signature.rs),
         S |-> HexEncode(<<"s">> \o signature.rs),
         V |-> signature.v,
         Hash |-> HexEncode(hash),
         Bytes |-> HexEncode(signature)]

\* the types the Signer hands to apitypes: a copy of the caller's map, with
\* EIP712Domain added when the map does not hold it
WithDomainType(types, domainType) ==
    IF "EIP712Domain" \in DOMAIN types THEN types
    ELSE Put(types, "EIP712Domain", domainType)

SignTypedData(key, domain, types, primaryType, message, order) ==
    LET typedData == [Types |-> WithDomainType(types, buildDomainTypes(domain)),
                      Domain |-> domainToAPITypes(domain)]
        td == TypedData(types, buildDomainTypes(domain),
                        apiDomainMap(domainToAPITypes(domain)))
        Sign(h) ==
            IF IsErr(h.err)
            THEN [err |-> Wrap("failed to hash typed data: ", h.err),
                  sig |-> NilSignature, td |-> td]
            ELSE [err |-> NoErr, sig |-> NewSignature(h.out, key), td |-> td]
    IN  IF IsErr(validateNoCycles(types, order))
        THEN [err |-> validateNoCycles(types, order), sig |-> NilSignature,
              td |-> NoTypedData]
        ELSE Sign(TypedDataAndHash(typedData.Types, typedData.Domain, primaryType,
                                   message))

SignTypedDataOptimized(key, domain, types, primaryType, message, order, dcache) ==
    LET Sign(c, td, h) ==
            IF IsErr(h.err)
            THEN [err |-> Wrap("failed to hash typed data: ", h.err),
                  sig |-> NilSignature, dcache |-> c.cache, td |-> td]
            ELSE [err |-> NoErr, sig |-> NewSignature(h.out, key),
                  dcache |-> c.cache, td |-> td]
        Assemble(c) ==
            Sign(c,
                 TypedData(types, c.out, apiDomainMap(domainToAPITypes(domain))),
                 TypedDataAndHash(WithDomainType(types, c.out),
                                  domainToAPITypes(domain), primaryType, message))
    IN  IF IsErr(validateNoCycles(types, order))
        THEN [err |-> validateNoCycles(types, order), sig |-> NilSignature,
              dcache |-> dcache, td |-> NoTypedData]
        ELSE Assemble(IF "EIP712Domain" \in DOMAIN types
                      THEN [out |-> <<>>, cache |-> dcache]
                      ELSE getCachedDomainTypes(dcache, domain))

SignTypedDataFast(key, domain, types, primaryType, message, cache, order) ==
    LET Sign(h) ==
            IF IsErr(h.err)
            THEN [err |-> Wrap("failed to hash typed data: ", h.err),
                  sig |-> NilSignature, cache |-> h.cache, types |-> h.types,
                  td |-> h.td]
            ELSE [err |-> NoErr, sig |-> NewSignature(h.out, key),
                  cache |-> h.cache, types |-> h.types, td |-> h.td]
    IN  Sign(Hash(types, domain, primaryType, message, cache, order))

\* Signature.Recover from "Decode signature" on
recoverAddress(sig, hash) ==
    LET Address(pubKey) ==
            IF IsErr(pubKey.err)
            THEN [err |-> Wrap("failed to recover public key: ", pubKey.err),
                  addr |-> ZeroAddress]
            ELSE [err |-> NoErr, addr |-> PubkeyToAddress(pubKey.out)]
        Decoded(d) ==
            IF IsErr(d.err)
            THEN [err |-> Wrap("invalid signature hex: ", d.err), addr |-> ZeroAddress]
            ELSE IF d.out.len # 65
            THEN [err |-> <<"signature must be 65 bytes">>, addr |-> ZeroAddress]
            ELSE Address(SigToPub(hash, IF d.out.v >= 27
                                        THEN [d.out EXCEPT !.v = @ - 27]
                                        ELSE d.out))
    IN  Decoded(HexDecode(sig.Bytes))

Recover(sig, domain, types, primaryType, message) ==
    LET td == TypedData(types, buildDomainTypesStatic(domain),
                        apiDomainMap(domainToAPITypesStatic(domain)))
        Result(r) == [err |-> r.err, addr |-> r.addr, td |-> td]
        RecoverFrom(h) ==
            IF IsErr(h.err)
            THEN [err |-> Wrap("failed to hash typed data: ", h.err),
                  addr |-> ZeroAddress, td |-> td]
            ELSE Result(recoverAddress(sig, h.out))
    IN  RecoverFrom(TypedDataAndHash(
            WithDomainType(types, buildDomainTypesStatic(domain)),
            domainToAPITypesStatic(domain), primaryType, message))

VerifySignature(sig, expectedSigner, domain, types, primaryType, message) ==
    LET Compare(r) ==
            IF IsErr(r.err)
            THEN [ok |-> FALSE, err |-> r.err, addr |-> r.addr, td |-> r.td]
            ELSE [ok |-> r.addr = expectedSigner, err |-> NoErr, addr |-> r.addr,
                  td |-> r.td]
    IN  Compare(Recover(sig, domain, types, primaryType, message))

\* RecoverSignatureFast from "Decode signature" on
recoverAddressFast(sig, hash) ==
    LET Address(pubKey) ==
            IF IsErr(pubKey.err)
            THEN [err |-> Wrap("failed to recover public key: ", pubKey.err),
                  addr |-> ZeroAddress]
            ELSE [err |-> NoErr, addr |-> PubkeyToAddress(pubKey.out)]
        Decoded(d) ==
            IF IsErr(d.err)
            THEN [err |-> Wrap("invalid signature hex: ", d.err), addr |-> ZeroAddress]
            ELSE IF d.out.len # 65
            THEN [err |-> <<"signature must be 65 bytes">>, addr |-> ZeroAddress]
            ELSE Address(SigToPub(hash, IF d.out.v >= 27
                                        THEN [d.out EXCEPT !.v = @ - 27]
                                        ELSE d.out))
    IN  Decoded(HexDecode(sig.Bytes))

RecoverSignatureFast(sig, domain, types, primaryType, message, cache, order) ==
    LET Result(h, r) ==
            [err |-> r.err, addr |-> r.addr, cache |-> h.cache, types |-> h.types,
             td |-> h.td]
        RecoverFrom(h) ==
            IF IsErr(h.err)
            THEN [err |-> Wrap("failed to hash typed data: ", h.err),
                  addr |-> ZeroAddress, cache |-> h.cache, types |-> h.types,
                  td |-> h.td]
            ELSE Result(h, recoverAddressFast(sig, h.out))
    IN  RecoverFrom(Hash(types, domain, primaryType, message, cache, order))

VerifySignatureFast(sig, expectedSigner, domain, types, primaryType, message, cache, order) ==
    LET Compare(r) ==
            [ok |-> ~IsErr(r.err) /\ r.addr = expectedSigner, err |-> r.err,
             addr |-> r.addr, cache |-> r.cache, types |-> r.types, td |-> r.td]
    IN  Compare(RecoverSignatureFast(sig, domain, types, primaryType, message,
                                     cache, order))

-----------------------------------------------------------------------------
(* Type inference: inferTypes of eip712.go and the cached inference of      *)
(* fast_helpers.go                                                          *)

\* fmt.Sprintf("bytes%d", n) for the lengths of the model's byte slices
BytesSpelling(n) ==
    CHOOSE name \in DOMAIN FixedBytesSize : FixedBytesSize[name] = n

\* inferTypes: the switch over one value
inferType(value) ==
    IF value.k = "string"
    THEN IF IsHexAddress(value.v) THEN T("address")
         ELSE IF ParseDecimal(value.v).ok THEN T("uint256")
         ELSE T("string")
    ELSE IF value.k \in {"*big.Int", "int"} THEN T("uint256")
    ELSE IF value.k = "bool" THEN T("bool")
    ELSE IF value.k = "[]uint8" THEN T(BytesSpelling(value.v.len))
    ELSE T("string")

\* inferTypes: one Type per key of the message, sorted by name
inferTypes(message) ==
    LET keys == SortStrings(DOMAIN message)
    IN  [i \in DOMAIN keys |-> Field(keys[i], inferType(message[keys[i]]))]

RECURSIVE inferTypeOptimizedSingle(_)

\* inferTypeOptimizedSingle; an address text of the model has 42 characters
\* exactly when it has the 0x prefix, and its decimal texts start with a digit
inferTypeOptimizedSingle(value) ==
    IF value.k = "string"
    THEN IF (\E a \in AddressValues : HexText(a) = value.v) /\ IsHexAddress(value.v)
         THEN T("address")
         ELSE IF ParseDecimal(value.v).ok THEN T("uint256")
         ELSE T("string")
    ELSE IF value.k \in {"*big.Int", "int"} THEN T("uint256")
    ELSE IF value.k = "bool" THEN T("bool")
    ELSE IF value.k = "[]uint8" THEN T(BytesSpelling(value.v.len))
    ELSE IF value.k = "slice"
    THEN IF Len(value.v) > 0 THEN Arr(inferTypeOptimizedSingle(value.v[1]), "[]")
         ELSE Arr(T("string"), "[]")
    ELSE T("string")

\* generateTypesCacheKey: "name:%T" of every field, in sorted order of name
generateTypesCacheKey(message) ==
    LET keys == SortStrings(DOMAIN message)
    IN  [i \in DOMAIN keys |-> <<keys[i], message[keys[i]].k>>]

\* inferTypesOptimizedWithCache: the cached schema of the key when there is
\* one, else the inferred schema, which is stored under the key
inferTypesOptimizedWithCache(message, cache) ==
    LET Store(cacheKey, types) ==
            [out |-> types, cache |-> Put(cache, cacheKey, types)]
        Infer(cacheKey, keys) ==
            IF cacheKey \in DOMAIN cache
            THEN [out |-> cache[cacheKey], cache |-> cache]
            ELSE Store(cacheKey,
                       [i \in DOMAIN keys |->
                           Field(keys[i], inferTypeOptimizedSingle(message[keys[i]]))])
    IN  Infer(generateTypesCacheKey(message), SortStrings(DOMAIN message))

\* the chain id NewFastSigner and NewSigner are given
SignerChainID == <<1>>

\* (*FastSigner).SignMessageFastOptimized
SignMessageFastOptimized(key, appName, message, inferred, cache) ==
    LET Result(i, r) ==
            [err |-> r.err, sig |-> r.sig, cache |-> r.cache, td |-> r.td,
             inferred |-> i.cache, types |-> [Message |-> i.out]]
        Sign(i) ==
            Result(i, SignTypedDataFast(key,
                                        Domain(appName, "1", SignerChainID, ZeroAddr,
                                               ZeroSalt),
                                        [Message |-> i.out], "Message", message,
                                        cache, <<"Message">>))
    IN  Sign(inferTypesOptimizedWithCache(message, inferred))

\* (*Signer).SignMessage
SignMessage(key, appName, message) ==
    SignTypedData(key, Domain(appName, "1", SignerChainID, ZeroAddr, ZeroSalt),
                  [Message |-> inferTypes(message)], "Message", message,
                  <<"Message">>)

RECURSIVE inferTypeOptimized(_)

\* inferTypeOptimized of optimizations.go; a 0x text of the model has 42
\* characters when it spells an address and 66 when it spells a salt
inferTypeOptimized(value) ==
    IF value.k = "string"
    THEN IF \E a \in AddressValues : HexText(a) = value.v THEN T("address")
         ELSE IF \E x \in SaltValues : HexText(x) = value.v THEN T("bytes32")
         ELSE IF ParseDecimal(value.v).ok THEN T("uint256")
         ELSE T("string")
    ELSE IF value.k = "bool" THEN T("bool")
    ELSE IF value.k = "[]uint8" THEN T("bytes")
    ELSE IF value.k = "slice"
    THEN IF Len(value.v) > 0 THEN Arr(inferTypeOptimized(value.v[1]), "[]")
         ELSE Arr(T("string"), "[]")
    ELSE T("string")

\* inferTypesOptimized: one Type per key of the message, in sorted order
inferTypesOptimized(message) ==
    LET keys == SortStrings(DOMAIN message)
    IN  [i \in DOMAIN keys |-> Field(keys[i], inferTypeOptimized(message[keys[i]]))]

\* (*OptimizedSigner).SignMessageOptimized
SignMessageOptimized(key, appName, message, dcache) ==
    SignTypedDataOptimized(key, Domain(appName, "1", SignerChainID, ZeroAddr, ZeroSalt),
                           [Message |-> inferTypesOptimized(message)], "Message",
                           message, <<"Message">>, dcache)

-----------------------------------------------------------------------------
(* The EIP-2612 permit signers: eip712.go, fast_signer.go, fast_helpers.go *)

\* the types literal of SignPermit and SignPermitFast, and the value the
\* package variable permitTypes starts with
permitTypes ==
    [Permit |-> <<Field("owner", T("address")), Field("spender", T("address")),
                  Field("value", T("uint256")), Field("nonce", T("uint256")),
                  Field("deadline", T("uint256"))>>]

\* the arguments of a permit call
PermitArgs(tokenContract, tokenName, tokenVersion, spender, value, nonce, deadline) ==
    [tokenContract |-> tokenContract, tokenName |-> tokenName,
     tokenVersion |-> tokenVersion, spender |-> spender, value |-> value,
     nonce |-> nonce, deadline |-> deadline]

\* the Domain the three permit signers build
PermitDomain(a) ==
    Domain(a.tokenName, a.tokenVersion, SignerChainID, a.tokenContract, ZeroSalt)

\* the Message the three permit signers build
PermitMessage(key, a) ==
    [owner |-> VString(AddressHex(key)), spender |-> VString(HexText(a.spender)),
     value |-> VString(IntString(a.value)), nonce |-> VString(IntString(a.nonce)),
     deadline |-> VString(IntString(a.deadline))]

\* (*Signer).SignPermit
SignPermit(key, a) ==
    SignTypedData(key, PermitDomain(a), permitTypes, "Permit", PermitMessage(key, a),
                  <<"Permit">>)

\* (*FastSigner).SignPermitFast
SignPermitFast(key, a, cache) ==
    SignTypedDataFast(key, PermitDomain(a), permitTypes, "Permit",
                      PermitMessage(key, a), cache, <<"Permit">>)

\* (*FastSigner).SignPermitFastOptimized: types is the package variable, which
\* the encoder is given as it is
SignPermitFastOptimized(key, a, cache, types) ==
    SignTypedDataFast(key, PermitDomain(a), types, "Permit", PermitMessage(key, a),
                      cache, SortStrings(DOMAIN types))

-----------------------------------------------------------------------------
(* The inputs of the model: signers, domains, schemas and messages *)

Keys == {"k1", "k2"}

Addresses == {PubkeyToAddress(k) : k \in Keys}

\* the schemas callers build, by name
Catalogue ==
    [msgA    |-> [Message |-> <<Field("content", T("string"))>>],
     msgB    |-> [Message |-> <<Field("id", T("uint256"))>>],
     nested  |-> [Inner |-> <<Field("value", T("string"))>>,
                  Outer |-> <<Field("inner", T("Inner")),
                              Field("id", T("uint256"))>>],
     self    |-> [A |-> <<Field("self", T("A")), Field("value", T("uint256"))>>],
     loop    |-> [A |-> <<Field("b", T("B"))>>,
                  B |-> <<Field("c", T("C"))>>,
                  C |-> <<Field("a", T("A"))>>],
     diamond |-> [A |-> <<Field("b", T("B")), Field("c", T("C"))>>,
                  B |-> <<Field("d", T("D"))>>,
                  C |-> <<Field("d", T("D"))>>,
                  D |-> <<Field("value", T("uint256"))>>],
     fan     |-> [A |-> <<Field("b", Arr(T("B"), "[]")), Field("c", Arr(T("C"), "[2]")),
                          Field("d", T("D"))>>,
                  B |-> <<Field("d", Arr(T("D"), "[]"))>>,
                  C |-> <<Field("d", T("D"))>>,
                  D |-> <<>>],
     ring    |-> [A |-> <<Field("b", T("B"))>>,
                  B |-> <<Field("c", Arr(T("C"), "[]"))>>,
                  C |-> <<Field("d", T("D"))>>,
                  D |-> <<Field("b", T("B"))>>],
     nodeDyn |-> [Node |-> <<Field("children", Arr(T("Node"), "[]")),
                             Field("value", T("uint256"))>>],
     nodeFix |-> [Node |-> <<Field("children", Arr(T("Node"), "[2]")),
                             Field("value", T("uint256"))>>],
     nodeNest |-> [Node |-> <<Field("children", Arr(Arr(T("Node"), "[]"), "[]")),
                              Field("value", T("uint256"))>>],
     ints    |-> [Message |-> <<Field("i", T("int256")), Field("u", T("uint256"))>>],
     deep    |-> [A |-> <<Field("b", Arr(Arr(T("B"), "[]"), "[]")),
                          Field("c", Arr(Arr(T("C"), "[3]"), "[]"))>>,
                  B |-> <<Field("value", T("uint256"))>>,
                  C |-> <<Field("value", T("uint256"))>>],
     dangling |-> [A |-> <<Field("b", T("B")), Field("id", T("uint256"))>>,
                   B |-> <<Field("gone", Arr(T("Missing"), "[]"))>>],
     badUint  |-> [Message |-> <<Field("data", T("uint257"))>>],
     badInt   |-> [Message |-> <<Field("data", T("int512"))>>],
     badBytes |-> [Message |-> <<Field("data", T("bytes33"))>>],
     badName  |-> [Message |-> <<Field("data", T("notAType"))>>],
     badEmpty |-> [Message |-> <<Field("data", T(""))>>],
     badSpace |-> [Message |-> <<Field("data", T("uint 256"))>>],
     okUint   |-> [Message |-> <<Field("data", T("uint8"))>>],
     okBytes  |-> [Message |-> <<Field("data", T("bytes32"))>>],
     leaves   |-> [Message |-> <<Field("a", T("address")), Field("b", T("bool")),
                                 Field("h", T("bytes32")), Field("d", T("bytes")),
                                 Field("s", Arr(T("string"), "[]")),
                                 Field("i", T("int256"))>>],
     ringFix |-> [A |-> <<Field("b", Arr(T("B"), "[2]"))>>,
                  B |-> <<Field("c", T("C"))>>,
                  C |-> <<Field("a", T("A"))>>]]

\* the messages callers build, by name
Messages ==
    [mA        |-> [content |-> VString("hi")],
     mA2       |-> [content |-> VString("yo")],
     mAextra   |-> [content |-> VString("hi"), extra |-> VString("x")],
     mAmissing |-> EmptyMap,
     mB        |-> [id |-> VString("1")],
     mLeaves   |-> [a |-> VString(HexText("c0de")), b |-> VBool(TRUE),
                    h |-> VString(HexText("5a17")), d |-> VBytes("aa", 1),
                    s |-> VSlice(<<VString("a"), VString("b")>>),
                    i |-> VBigInt(0 - 1)],
     mData     |-> [data |-> VString("1")],
     mDataHex  |-> [data |-> VString(HexText(ZeroSalt))],
     mBbad     |-> [id |-> VString("one")],
     mN        |-> [inner |-> VMap([value |-> VString("v")]), id |-> VString("1")],
     mNextra   |-> [inner |-> VMap([value |-> VString("v"), extra |-> VString("x")]),
                    id |-> VString("1")],
     mNmissing |-> [inner |-> VMap(EmptyMap), id |-> VString("1")],
     mSelf     |-> [self |-> VNil, value |-> VString("1")],
     mNode     |-> [children |-> VSlice(<<>>), value |-> VString("1")],
     iHello    |-> [x |-> VString("hello")],
     iOne      |-> [x |-> VString("1")],
     iBytes1   |-> [x |-> VBytes("aa", 1)],
     iBytes2   |-> [x |-> VBytes("aabb", 2)],
     iFlag     |-> [b |-> VBool(TRUE)],
     iMixed    |-> [x |-> VInt(1), b |-> VBool(TRUE), a |-> VString("hi")],
     iBig      |-> [x |-> VBigInt(1)],
     iAddr     |-> [x |-> VString(HexText("c0de"))],
     iSalt     |-> [x |-> VString(HexText("5a17"))],
     iEmpty    |-> [x |-> VSlice(<<>>)],
     iBare     |-> [x |-> VString("c0de")],
     iBytes0   |-> [x |-> VBytes("", 0)],
     iBytes32  |-> [x |-> VBytes("a32", 32)],
     iBytes33  |-> [x |-> VBytes("a33", 33)],
     iNil      |-> [x |-> VNil],
     iFloat    |-> [x |-> VFloat("1.5")],
     iMap      |-> [x |-> VMap([a |-> VString("hi")])],
     iSlice    |-> [x |-> VSlice(<<VString("hi")>>)]]

\* the types maps a caller keeps and passes again, by the schema they start as
SharedMaps == {"msgA"}

\* the types argument of a call: a map the caller keeps, or a map built for
\* the call
Shared(id) == [shared |-> TRUE, id |-> id]
Fresh(id) == [shared |-> FALSE, id |-> id]

\* the domains callers build, by name: a base domain and one field changed at
\* a time
Domains ==
    [base     |-> Domain("App", "1", <<>>, ZeroAddr, ZeroSalt),
     chain    |-> Domain("App", "1", <<1>>, ZeroAddr, ZeroSalt),
     chain0   |-> Domain("App", "1", <<0>>, ZeroAddr, ZeroSalt),
     name     |-> Domain("Bank", "1", <<>>, ZeroAddr, ZeroSalt),
     version  |-> Domain("App", "2", <<>>, ZeroAddr, ZeroSalt),
     bar      |-> Domain("App", "1|1", <<>>, ZeroAddr, ZeroSalt),
     contract |-> Domain("App", "1", <<>>, "c0de", ZeroSalt),
     salt     |-> Domain("App", "1", <<>>, ZeroAddr, "5a17")]

Call(src, pt, mid) == [src |-> src, pt |-> pt, mid |-> mid]

TypesOf(src) == IF src.shared THEN heap[src.id] ELSE Catalogue[src.id]

\* the message argument of a call: the map the caller keeps, or a map built
\* for the call
MessageOf(mid) == IF mid = "kept" THEN kept ELSE Messages[mid]

-----------------------------------------------------------------------------
(* The state *)

NoCall ==
    [op |-> "none", key |-> "", dom |-> "", src |-> Fresh(""), pt |-> "",
     mid |-> "", order |-> <<>>, before |-> EmptyMap, err |-> NoErr,
     sig |-> NilSignature, addr |-> ZeroAddress, expected |-> ZeroAddress,
     ok |-> FALSE, td |-> NoTypedData, args |-> <<>>, out |-> <<>>]

NoHeld ==
    [valid |-> FALSE, op |-> "none", key |-> "", dom |-> "", before |-> EmptyMap,
     after |-> EmptyMap, pt |-> "", mid |-> "", sig |-> NilSignature]

\* the goroutines of the callers, and the calls each of them makes at most
Threads == {1, 2}

MaxCalls == 1

NoThread == 0

\* a goroutine that is in no call
Idle ==
    [op |-> "none", dom |-> "", src |-> Fresh(""), pt |-> "", mid |-> "",
     todo |-> <<>>, types |-> EmptyMap, deps |-> <<>>, encoded |-> <<>>, calls |-> 0]

\* the mutexes: encoderCache.mu, typeCache.mu and the one embedded in
\* inferredTypesCache
Mutexes == {"globalEncoderCache", "globalTypeCache", "inferredTypesCache"}

\* a sync.RWMutex nobody holds: the writer, the readers, and the goroutines
\* inside Lock that wait for the readers to leave
Unlocked == [writer |-> NoThread, readers |-> {}, waiting |-> {}]

Init ==
    /\ heap = [id \in SharedMaps \cup {"permitTypes"} |->
                   IF id = "permitTypes" THEN permitTypes ELSE Catalogue[id]]
    /\ encCache = EmptyCache
    /\ domainTypes = EmptyMap
    /\ held = NoHeld
    /\ last = NoCall
    /\ inferredTypesCache = EmptyMap
    /\ gor = [t \in Threads |-> Idle]
    /\ mu = [c \in Mutexes |-> Unlocked]
    /\ kept = [i |-> VBigInt(1), u |-> VBigInt(1)]

\* the caller keeps the signature a sign call returned
Keep(keep, op, key, dom, before, after, pt, mid, r) ==
    IF keep /\ ~IsErr(r.err)
    THEN [valid |-> TRUE, op |-> op, key |-> key, dom |-> dom, before |-> before,
          after |-> after, pt |-> pt, mid |-> mid, sig |-> r.sig]
    ELSE held

-----------------------------------------------------------------------------
(* The calls *)

\* (*Signer).SignTypedData
CallSignTypedData(key, dom, src, pt, mid, order, keep) ==
    LET types == TypesOf(src)
    IN  /\ \E r \in {SignTypedData(key, Domains[dom], types, pt, MessageOf(mid), order)} :
           /\ last' = [NoCall EXCEPT !.op = "SignTypedData", !.key = key, !.dom = dom,
                           !.src = src, !.pt = pt, !.mid = mid, !.before = types,
                           !.err = r.err, !.sig = r.sig, !.td = r.td]
           /\ held' = Keep(keep, "SignTypedData", key, dom, types, types, pt, mid, r)
           /\ UNCHANGED <<heap, encCache, domainTypes>>
           /\ UNCHANGED rest

\* (*OptimizedSigner).SignTypedDataOptimized
CallSignTypedDataOptimized(key, dom, src, pt, mid, order, keep) ==
    LET types == TypesOf(src)
    IN  /\ \E r \in {SignTypedDataOptimized(key, Domains[dom], types, pt, MessageOf(mid),
                                       order, domainTypes)} :
           /\ last' = [NoCall EXCEPT !.op = "SignTypedDataOptimized", !.key = key,
                           !.dom = dom, !.src = src, !.pt = pt, !.mid = mid,
                           !.before = types, !.err = r.err, !.sig = r.sig, !.td = r.td]
           /\ domainTypes' = r.dcache
           /\ held' = Keep(keep, "SignTypedDataOptimized", key, dom, types, types, pt,
                           mid, r)
           /\ UNCHANGED <<heap, encCache>>
           /\ UNCHANGED rest

\* (*FastSigner).SignTypedDataFast: the encoder holds the caller's map itself
CallSignTypedDataFast(key, dom, src, pt, mid, order, keep) ==
    LET types == TypesOf(src)
    IN  /\ \E r \in {SignTypedDataFast(key, Domains[dom], types, pt, MessageOf(mid),
                                  encCache, order)} :
           /\ last' = [NoCall EXCEPT !.op = "SignTypedDataFast", !.key = key,
                           !.dom = dom, !.src = src, !.pt = pt, !.mid = mid,
                           !.before = types, !.err = r.err, !.sig = r.sig, !.td = r.td]
           /\ encCache' = r.cache
           /\ heap' = IF src.shared THEN [heap EXCEPT ![src.id] = r.types] ELSE heap
           /\ held' = Keep(keep, "SignTypedDataFast", key, dom, types, r.types, pt, mid, r)
           /\ UNCHANGED domainTypes
           /\ kept' = IF mid = "kept"
                      THEN HashWrites(types, Domains[dom], pt, kept, encCache, order)
                      ELSE kept
           /\ UNCHANGED <<inferredTypesCache, conc>>

\* (*Signature).Recover on the signature the caller holds
CallRecover(dom, src, pt, mid) ==
    LET types == TypesOf(src)
    IN  /\ held.valid
        /\ \E r \in {Recover(held.sig, Domains[dom], types, pt,
                          MessageOf(mid))} :
            /\ last' = [NoCall EXCEPT !.op = "Recover", !.dom = dom, !.src = src,
                            !.pt = pt, !.mid = mid, !.before = types, !.err = r.err,
                            !.sig = held.sig, !.addr = r.addr, !.td = r.td]
            /\ UNCHANGED <<heap, encCache, domainTypes, held>>
            /\ UNCHANGED rest

\* (*Signer).VerifySignature on the signature the caller holds
CallVerifySignature(expectedSigner, dom, src, pt, mid) ==
    LET types == TypesOf(src)
    IN  /\ held.valid
        /\ \E r \in {VerifySignature(held.sig, expectedSigner, Domains[dom],
                          types, pt, MessageOf(mid))} :
            /\ last' = [NoCall EXCEPT !.op = "VerifySignature", !.dom = dom,
                            !.src = src, !.pt = pt, !.mid = mid, !.before = types,
                            !.err = r.err, !.sig = held.sig, !.addr = r.addr,
                            !.expected = expectedSigner, !.ok = r.ok, !.td = r.td]
            /\ UNCHANGED <<heap, encCache, domainTypes, held>>
            /\ UNCHANGED rest

\* (*FastSigner).RecoverSignatureFast on the signature the caller holds
CallRecoverSignatureFast(dom, src, pt, mid, order) ==
    LET types == TypesOf(src)
    IN  /\ held.valid
        /\ \E r \in {RecoverSignatureFast(held.sig, Domains[dom], types, pt,
                          MessageOf(mid), encCache, order)} :
            /\ last' = [NoCall EXCEPT !.op = "RecoverSignatureFast", !.dom = dom,
                            !.src = src, !.pt = pt, !.mid = mid, !.before = types,
                            !.err = r.err, !.sig = held.sig, !.addr = r.addr,
                            !.td = r.td]
            /\ encCache' = r.cache
            /\ heap' = IF src.shared THEN [heap EXCEPT ![src.id] = r.types] ELSE heap
            /\ UNCHANGED <<domainTypes, held>>
            /\ kept' = IF mid = "kept"
                       THEN HashWrites(types, Domains[dom], pt, kept, encCache, order)
                       ELSE kept
            /\ UNCHANGED <<inferredTypesCache, conc>>

\* (*FastSigner).VerifySignatureFast on the signature the caller holds
CallVerifySignatureFast(expectedSigner, dom, src, pt, mid, order) ==
    LET types == TypesOf(src)
    IN  /\ held.valid
        /\ \E r \in {VerifySignatureFast(held.sig, expectedSigner,
                          Domains[dom], types, pt, MessageOf(mid), encCache,
                          order)} :
            /\ last' = [NoCall EXCEPT !.op = "VerifySignatureFast", !.dom = dom,
                            !.src = src, !.pt = pt, !.mid = mid, !.before = types,
                            !.err = r.err, !.sig = held.sig, !.addr = r.addr,
                            !.expected = expectedSigner, !.ok = r.ok, !.td = r.td]
            /\ encCache' = r.cache
            /\ heap' = IF src.shared THEN [heap EXCEPT ![src.id] = r.types] ELSE heap
            /\ UNCHANGED <<domainTypes, held>>
            /\ kept' = IF mid = "kept"
                       THEN HashWrites(types, Domains[dom], pt, kept, encCache, order)
                       ELSE kept
            /\ UNCHANGED <<inferredTypesCache, conc>>

\* validateNoCycles on a schema, with the order the map's range loop visits
\* the type names in
CallValidateNoCycles(id, order) ==
    /\ last' = [NoCall EXCEPT !.op = "validateNoCycles", !.src = Fresh(id),
                    !.order = order, !.before = Catalogue[id],
                    !.err = validateNoCycles(Catalogue[id], order)]
    /\ UNCHANGED <<heap, encCache, domainTypes, held>>
    /\ UNCHANGED rest

-----------------------------------------------------------------------------
(* Signing: any sequence of sign calls of Signer and FastSigner *)

SignKeys == {"k1"}

SignDomains == {"base", "chain"}

SignCalls ==
    {Call(Shared("msgA"), "Message", "mA"),
     Call(Shared("msgA"), "Message", "mAextra"),
     Call(Fresh("msgA"), "Message", "mA"),
     Call(Fresh("msgA"), "Message", "mAmissing"),
     Call(Fresh("msgA"), "Nope", "mA"),
     Call(Fresh("msgB"), "Message", "mB"),
     Call(Fresh("msgB"), "Message", "mBbad"),
     Call(Fresh("nested"), "Outer", "mN"),
     Call(Fresh("nested"), "Outer", "mNextra"),
     Call(Fresh("nested"), "Outer", "mNmissing"),
     Call(Fresh("self"), "A", "mSelf"),
     Call(Fresh("nodeNest"), "Node", "mNode")}

Next ==
    \E key \in SignKeys, dom \in SignDomains, c \in SignCalls :
        \E order \in Orders(DOMAIN TypesOf(c.src)) :
            \/ CallSignTypedData(key, dom, c.src, c.pt, c.mid, order, FALSE)
            \/ CallSignTypedDataFast(key, dom, c.src, c.pt, c.mid, order, FALSE)

Spec == Init /\ [][Next]_vars

-----------------------------------------------------------------------------
(* Cycle detection: validateNoCycles on every schema of the catalogue, in   *)
(* every order the map may be visited in, and the sign calls on the         *)
(* recursive schemas                                                         *)

CycleCalls ==
    {Call(Fresh("self"), "A", "mSelf"),
     Call(Fresh("nodeDyn"), "Node", "mNode"),
     Call(Fresh("nodeFix"), "Node", "mNode"),
     Call(Fresh("nodeNest"), "Node", "mNode"),
     Call(Fresh("msgA"), "Message", "mA")}

NextCycle ==
    \/ \E id \in DOMAIN Catalogue :
           \E order \in Orders(DOMAIN Catalogue[id]) :
               CallValidateNoCycles(id, order)
    \/ \E c \in CycleCalls :
           \E order \in Orders(DOMAIN TypesOf(c.src)) :
               \/ CallSignTypedData("k1", "base", c.src, c.pt, c.mid, order, FALSE)
               \/ CallSignTypedDataOptimized("k1", "base", c.src, c.pt, c.mid, order,
                                             FALSE)
               \/ CallSignTypedDataFast("k1", "base", c.src, c.pt, c.mid, order, FALSE)

SpecCycle == Init /\ [][NextCycle]_vars

\* the custom types a type's fields refer to, directly or as the element
\* type of an array of any form
References(types, typeName) ==
    {types[typeName][i].Type.base : i \in DOMAIN types[typeName]} \cap DOMAIN types

RECURSIVE ReachableFrom(_, _, _)
ReachableFrom(types, frontier, seen) ==
    IF frontier \subseteq seen THEN seen
    ELSE ReachableFrom(types,
                       UNION {References(types, t) : t \in frontier \ seen},
                       seen \cup frontier)

\* some type refers to itself, directly or through a chain of other types
HasCycle(types) ==
    \E t \in DOMAIN types : t \in ReachableFrom(types, References(types, t), {})

SignOps == {"SignTypedData", "SignTypedDataOptimized", "SignTypedDataFast"}

\* C5: validateNoCycles, and so each sign call, returns the "cyclic reference
\* detected" error for every schema in which a type refers to itself directly
\* or through other types, a reference through an array of any form counted.
CyclesAreRejected ==
    (last.op \in SignOps \cup {"validateNoCycles"} /\ HasCycle(last.before))
        => IsCycleErr(last.err)

\* C6: validateNoCycles returns nil for every schema whose reference graph is
\* acyclic, a type reached along several paths included, in whatever order the
\* type names of the map are visited.
NoFalseCycle ==
    (last.op = "validateNoCycles" /\ ~HasCycle(last.before))
        => last.err = NoErr

\* the diamond A->B->D, A->C->D passes when D is visited first and A last
DiamondPasses ==
    /\ last.op = "validateNoCycles"
    /\ last.src = Fresh("diamond")
    /\ last.order = <<"D", "B", "C", "A">>
    /\ last.err = NoErr


-----------------------------------------------------------------------------
(* Determinism and failure atomicity of the sign calls (Spec) *)

\* what the last sign call returns when nothing was called before it
FirstCall(order) ==
    IF last.op = "SignTypedDataFast"
    THEN SignTypedDataFast(last.key, Domains[last.dom], last.before, last.pt,
                           Messages[last.mid], EmptyCache, order)
    ELSE SignTypedData(last.key, Domains[last.dom], last.before, last.pt,
                       Messages[last.mid], order)

\* C2: what SignTypedData and SignTypedDataFast return is a function of
\* (key, domain, schema, primaryType, message) only: after any earlier calls
\* the call succeeds exactly when it does on an empty cache, with the same
\* Hash, R, S and V.
SignIsAFunctionOfItsInputs ==
    last.op \in {"SignTypedData", "SignTypedDataFast"}
        => \A order \in Orders(DOMAIN last.before) :
               /\ IsErr(FirstCall(order).err) <=> IsErr(last.err)
               /\ FirstCall(order).sig = last.sig

\* C7: when SignTypedDataFast returns an error it returns no signature, and
\* typeHashes, encodedTypes and dependencies hold what they held before the
\* call.
FailedSignLeavesTheCache ==
    [][(last'.op = "SignTypedDataFast" /\ IsErr(last'.err))
           => (last'.sig = NilSignature /\ encCache' = encCache)]_vars

-----------------------------------------------------------------------------
(* Signing and verifying: the caller keeps the signature a sign call        *)
(* returned and hands it to the recover and verify calls                    *)

VerifyDomains == {"chain"}

VerifyCalls ==
    {Call(Shared("msgA"), "Message", "mA"),
     Call(Fresh("msgA"), "Message", "mAextra"),
     Call(Fresh("msgB"), "Message", "mB"),
     Call(Fresh("nested"), "Outer", "mN"),
     Call(Fresh("nested"), "Outer", "mNextra"),
     Call(Fresh("nested"), "Outer", "mNmissing")}

NextVerify ==
    \/ \E key \in SignKeys, dom \in VerifyDomains, c \in VerifyCalls :
           \E order \in Orders(DOMAIN TypesOf(c.src)) :
               \/ CallSignTypedData(key, dom, c.src, c.pt, c.mid, order, TRUE)
               \/ CallSignTypedDataOptimized(key, dom, c.src, c.pt, c.mid, order, FALSE)
               \/ CallSignTypedDataFast(key, dom, c.src, c.pt, c.mid, order, TRUE)
    \/ \E dom \in VerifyDomains, c \in VerifyCalls :
           \/ CallRecover(dom, c.src, c.pt, c.mid)
           \/ \E expectedSigner \in Addresses :
                  CallVerifySignature(expectedSigner, dom, c.src, c.pt, c.mid)
           \/ \E order \in Orders(DOMAIN TypesOf(c.src)) :
                  \/ CallRecoverSignatureFast(dom, c.src, c.pt, c.mid, order)
                  \/ \E expectedSigner \in Addresses :
                         CallVerifySignatureFast(expectedSigner, dom, c.src, c.pt,
                                                 c.mid, order)

SpecVerify == Init /\ [][NextVerify]_vars

RecoverOps == {"Recover", "RecoverSignatureFast"}

VerifyOps == {"VerifySignature", "VerifySignatureFast"}

FastOps == {"SignTypedDataFast", "RecoverSignatureFast", "VerifySignatureFast"}

\* the last call was given what the signature the caller holds was made from,
\* by the signer family that made it
SameInputs ==
    /\ held.valid
    /\ last.op \in RecoverOps \cup VerifyOps
    /\ (last.op \in FastOps) = (held.op \in FastOps)
    /\ last.dom = held.dom
    /\ last.before \in {held.before, held.after}
    /\ last.pt = held.pt
    /\ last.mid = held.mid

FastIsADropInReplacement ==
    /\ last.op = "SignTypedDataFast"
           => \A order \in Orders(DOMAIN last.before) :
                  LET s == SignTypedData(last.key, Domains[last.dom], last.before,
                                         last.pt, Messages[last.mid], order)
                  IN  /\ IsErr(s.err) <=> IsErr(last.err)
                      /\ s.sig.Hash = last.sig.Hash
                      /\ s.sig.Bytes = last.sig.Bytes
    /\ last.op = "RecoverSignatureFast"
           => LET r == Recover(last.sig, Domains[last.dom], last.before, last.pt,
                               Messages[last.mid])
              IN  /\ IsErr(r.err) <=> IsErr(last.err)
                  /\ r.addr = last.addr

\* C4: no sign, recover or verify call changes a types map of the caller: its
\* keys and field lists are after the call what they were before it.
CallerSchemaIsNotMutated == [][heap' = heap]_vars

RECURSIVE WellShaped(_, _, _)
\* the value is a mapping with exactly the fields its type declares, and so
\* is every struct below it
WellShaped(types, typeName, data) ==
    /\ DOMAIN data = {types[typeName][i].Name : i \in DOMAIN types[typeName]}
    /\ \A i \in DOMAIN types[typeName] :
           LET field == types[typeName][i]
           IN  (field.Type.arr = <<>> /\ field.Type.base \in DOMAIN types)
                   => /\ data[field.Name].k = "map"
                      /\ WellShaped(types, field.Type.base, data[field.Name].v)

\* C10: every sign, recover and verify call returns an error, and no
\* signature or address, when a struct of the message, at any depth, lacks a
\* declared field or holds a key that is no declared field.
ShapeIsChecked ==
    (/\ last.op \in SignOps \cup RecoverOps \cup VerifyOps
     /\ last.pt \in DOMAIN last.before
     /\ ~WellShaped(last.before, last.pt, Messages[last.mid]))
        => /\ IsErr(last.err)
           /\ last.op \in SignOps => last.sig = NilSignature
           /\ last.op \in RecoverOps \cup VerifyOps
                  => (last.addr = ZeroAddress /\ ~last.ok)

-----------------------------------------------------------------------------
(* Domains: one message signed and verified under domains that differ in    *)
(* one field.  The Signer calls are given the map the caller keeps or one   *)
(* built for the call, the FastSigner calls the map the caller keeps.       *)

Signer1 == PubkeyToAddress("k1")

DomainMaps == {Shared("msgA"), Fresh("msgA")}

NextDomain ==
    \E dom \in DOMAIN Domains :
        \/ \E src \in DomainMaps :
               \E order \in Orders(DOMAIN TypesOf(src)) :
                   \/ \E keep \in BOOLEAN :
                          CallSignTypedData("k1", dom, src, "Message", "mA", order,
                                            keep)
                   \/ CallRecover(dom, src, "Message", "mA")
                   \/ CallVerifySignature(Signer1, dom, src, "Message", "mA")
        \/ \E order \in Orders(DOMAIN heap["msgA"]) :
               \/ \E keep \in BOOLEAN :
                      CallSignTypedDataFast("k1", dom, Shared("msgA"), "Message",
                                            "mA", order, keep)
               \/ CallRecoverSignatureFast(dom, Shared("msgA"), "Message", "mA",
                                           order)
               \/ CallVerifySignatureFast(Signer1, dom, Shared("msgA"), "Message",
                                          "mA", order)

SpecDomain == Init /\ [][NextDomain]_vars

DomainFieldNames == {"Name", "Version", "ChainID", "VerifyingContract", "Salt"}

\* the two domains differ in exactly one field: in its value, or in whether
\* it is set
DiffersInOneField(a, b) ==
    Cardinality({f \in DomainFieldNames : a[f] # b[f]}) = 1

\* the caller holds a signature of the message of the last call, made by the
\* same signer family under a domain that differs in one field
OtherDomain ==
    /\ held.valid
    /\ (last.op \in FastOps) = (held.op \in FastOps)
    /\ DiffersInOneField(Domains[held.dom], Domains[last.dom])
    /\ last.pt = held.pt
    /\ last.mid = held.mid

\* C8: two sign calls of SignTypedData, or of SignTypedDataFast, for the same
\* schema, primaryType and message under domains that differ in exactly one
\* field return different digests, and the signature of one does not verify
\* under the domain of the other, in either order of the calls and also when
\* both are given the same types map.
DomainSensitivity ==
    OtherDomain
        => /\ (last.op \in SignOps /\ last.err = NoErr)
                  => last.sig.Hash # held.sig.Hash
           /\ last.op \in VerifyOps => ~last.ok

\* the names name, version, chainId, verifyingContract, salt of the fields
\* that are present in a Domain, in this order
PresentFields(domain) ==
    <<"name", "version">>
    \o (IF domain.ChainID # <<>> THEN <<"chainId">> ELSE <<>>)
    \o (IF domain.VerifyingContract # ZeroAddr THEN <<"verifyingContract">> ELSE <<>>)
    \o (IF domain.Salt # ZeroSalt THEN <<"salt">> ELSE <<>>)

-----------------------------------------------------------------------------
(* The format of a returned signature                                       *)

\* C11: every Signature returned by SignTypedData, SignTypedDataOptimized or
\* SignTypedDataFast has V in {27, 28}; R, S, Hash and Bytes are 0x-prefixed
\* hex; Bytes is the hex of 65 bytes whose first 32 are the bytes of R, whose
\* next 32 are the bytes of S and whose last byte is V; and Hash is the hex of
\* the digest that the signer's key signed.
SignatureFormat ==
    (last.op \in SignOps /\ ~IsErr(last.err))
        => /\ last.sig.V \in {27, 28}
           /\ \A part \in {"R", "S", "Hash", "Bytes"} : last.sig[part].prefix = "0x"
           /\ last.sig.Bytes.digits.len = 65
           /\ last.sig.R.digits = <<"r">> \o last.sig.Bytes.digits.rs
           /\ last.sig.S.digits = <<"s">> \o last.sig.Bytes.digits.rs
           /\ last.sig.Bytes.digits.v = last.sig.V
           /\ last.sig.Bytes.digits.rs = CryptoSign(last.sig.Hash.digits, last.key).rs
           /\ last.sig.V = RecoveryId(last.key, last.sig.Hash.digits) + 27

\* SignTypedDataOptimized returned a signature whose V is 27
OptimizedSignatureWithV27 ==
    /\ last.op = "SignTypedDataOptimized"
    /\ ~IsErr(last.err)
    /\ last.sig.V = 27

-----------------------------------------------------------------------------
(* Recovery from signatures the caller built: the caller holds a Signature  *)
(* value of any content and hands it to the recover and verify calls        *)

\* the last byte of the signature bytes a caller builds
ForgedV == {0, 1, 2, 3, 4, 26, 27, 28, 29, 30, 31, 255}

\* Signature values a caller builds: Bytes that is not 0x-hex, Bytes of 64
\* and of 66 bytes, and 65 bytes with each r, s and each last byte
ForgedSignatures ==
    {[NilSignature EXCEPT !.Bytes = [prefix |-> "", digits |-> @.digits]]}
    \cup {[NilSignature EXCEPT
               !.V = 27, !.Bytes = HexEncode([rs |-> InRange, v |-> 27, len |-> n])] :
              n \in {64, 66}}
    \cup {[NilSignature EXCEPT
               !.V = v, !.Bytes = HexEncode([rs |-> rs, v |-> v, len |-> 65])] :
              v \in ForgedV, rs \in {OutOfRange, InRange, SmallR}}

\* the caller builds a Signature value: &Signature{...}
ForgeSignature(sig) ==
    /\ held' = [NoHeld EXCEPT !.valid = TRUE, !.op = "forged", !.sig = sig]
    /\ last' = [NoCall EXCEPT !.op = "forged", !.sig = sig]
    /\ UNCHANGED <<heap, encCache, domainTypes>>
    /\ UNCHANGED rest

RecoverCalls ==
    {Call(Fresh("msgA"), "Message", "mA"),
     Call(Fresh("msgA"), "Message", "mAmissing")}

NextRecover ==
    \/ \E sig \in ForgedSignatures : ForgeSignature(sig)
    \/ \E key \in SignKeys, dom \in VerifyDomains, c \in RecoverCalls :
           \E order \in Orders(DOMAIN TypesOf(c.src)) :
               \/ CallSignTypedData(key, dom, c.src, c.pt, c.mid, order, TRUE)
               \/ CallSignTypedDataFast(key, dom, c.src, c.pt, c.mid, order, TRUE)
    \/ \E dom \in VerifyDomains, c \in RecoverCalls :
           \/ CallRecover(dom, c.src, c.pt, c.mid)
           \/ \E expectedSigner \in Addresses :
                  CallVerifySignature(expectedSigner, dom, c.src, c.pt, c.mid)
           \/ \E order \in Orders(DOMAIN TypesOf(c.src)) :
                  \/ CallRecoverSignatureFast(dom, c.src, c.pt, c.mid, order)
                  \/ \E expectedSigner \in Addresses :
                         CallVerifySignatureFast(expectedSigner, dom, c.src, c.pt,
                                                 c.mid, order)

SpecRecover == Init /\ [][NextRecover]_vars

\* C12: Recover and RecoverSignatureFast return an error and the zero address
\* whenever sig.Bytes is not 0x-hex, does not decode to 65 bytes, or its last
\* byte is not one of 0, 1, 27, 28; VerifySignature and VerifySignatureFast
\* then return false and the error.
InvalidSignatureIsRefused ==
    (/\ last.op \in RecoverOps \cup VerifyOps
     /\ \/ last.sig.Bytes.prefix # "0x"
        \/ last.sig.Bytes.digits.len # 65
        \/ last.sig.Bytes.digits.v \notin {0, 1, 27, 28})
        => /\ IsErr(last.err)
           /\ last.addr = ZeroAddress
           /\ last.op \in VerifyOps => ~last.ok

-----------------------------------------------------------------------------
(* Signing with an inferred schema *)

\* (*FastSigner).SignMessageFastOptimized
CallSignMessageFastOptimized(key, appName, mid) ==
    /\ \E r \in {SignMessageFastOptimized(key, appName, Messages[mid],
                                          inferredTypesCache, encCache)} :
           /\ last' = [NoCall EXCEPT !.op = "SignMessageFastOptimized", !.key = key,
                           !.pt = "Message", !.mid = mid, !.before = r.types,
                           !.err = r.err, !.sig = r.sig, !.td = r.td]
           /\ encCache' = r.cache
           /\ inferredTypesCache' = r.inferred
           /\ UNCHANGED <<heap, domainTypes, held, kept>>
           /\ UNCHANGED conc

\* inferTypes
CallInferTypes(mid) ==
    /\ last' = [NoCall EXCEPT !.op = "inferTypes", !.mid = mid,
                    !.before = [Message |-> inferTypes(Messages[mid])]]
    /\ UNCHANGED <<heap, encCache, domainTypes, held, inferredTypesCache, kept>>
    /\ UNCHANGED conc

\* the messages whose schema is inferred
InferMessages ==
    {"iHello", "iOne", "iBytes1", "iBytes2", "iFlag", "iMixed", "iBig", "iAddr",
     "iBare", "iBytes0", "iBytes32", "iBytes33", "iNil", "iFloat", "iMap", "iSlice"}

\* the messages signed with an inferred schema
InferSignMessages == {"iHello", "iOne", "iBytes1", "iBytes2", "iFlag", "iAddr"}

NextInfer ==
    \/ \E key \in SignKeys, mid \in InferSignMessages :
           CallSignMessageFastOptimized(key, "App", mid)
    \/ \E mid \in InferMessages : CallInferTypes(mid)

SpecInfer == Init /\ [][NextInfer]_vars

\* C13: SignMessageFastOptimized returns what it returns for the same signer,
\* appName and message in a process that has signed nothing before: the same
\* inferred schema, the same error or the same Hash, R, S and V.
SignMessageIsAFunctionOfItsInputs ==
    last.op = "SignMessageFastOptimized"
        => \E first \in {SignMessageFastOptimized(last.key, "App", Messages[last.mid],
                                                  EmptyMap, EmptyCache)} :
               /\ last.before = first.types
               /\ last.err = first.err
               /\ last.sig = first.sig

\* the type the inference rules give a value: bool for a boolean, uint256 for
\* a native integer or *big.Int, address for a 0x-prefixed address text,
\* uint256 for another decimal text, string for another text, bytesN for at
\* most 32 bytes, string for everything else
InferredTypeByRule(value) ==
    IF value.k = "bool" THEN T("bool")
    ELSE IF value.k \in {"int", "*big.Int"} THEN T("uint256")
    ELSE IF value.k = "string" /\ (\E a \in AddressValues : HexText(a) = value.v)
    THEN T("address")
    ELSE IF value.k = "string" /\ ParseDecimal(value.v).ok THEN T("uint256")
    ELSE IF value.k = "[]uint8" /\ value.v.len <= 32
    THEN T(BytesSpelling(value.v.len))
    ELSE T("string")

\* C14: inferTypes(message) has exactly one field per key of the message, in
\* strictly ascending order of name, and the type of each field is the one
\* the inference rules give the value of that key.
InferTypesFollowsTheRules ==
    last.op = "inferTypes"
        => LET types == last.before["Message"]
               message == Messages[last.mid]
           IN  /\ Len(types) = Cardinality(DOMAIN message)
               /\ {types[i].Name : i \in DOMAIN types} = DOMAIN message
               /\ [i \in DOMAIN types |-> types[i].Name] = SortStrings(DOMAIN message)
               /\ \A i \in DOMAIN types :
                      types[i].Type = InferredTypeByRule(message[types[i].Name])

-----------------------------------------------------------------------------
(* Concurrent calls: each goroutine runs its call one memory access or one  *)
(* lock operation at a time. The schemas of these calls have no struct      *)
(* fields, so a call hashes EIP712Domain and its primary type.              *)

\* one step of a call: a lock operation on mutex c, an access of the map
\* named map of cache c under key, or an access of the call's types map
I(k, c, map, key, miss) == [k |-> k, c |-> c, map |-> map, key |-> key, miss |-> miss]

\* look the key up under RLock; when it is absent run body, then store under Lock
Memo(c, map, key, body) ==
    <<I("RLock", c, "", "", 0), I("read", c, map, key, Len(body) + 3),
      I("RUnlock", c, "", "", 0)>>
    \o body
    \o <<I("Lock", c, "", "", 0), I("write", c, map, key, 0), I("Unlock", c, "", "", 0)>>

\* a read of e.Types, or of the types argument
ReadTypesI(what, name, miss) == I("types", "", what, name, miss)

\* (*FastTypedDataEncoder).dependencies
dependenciesSteps(typeName) ==
    Memo("globalEncoderCache", "dependencies", typeName,
         <<ReadTypesI("findDependencies", typeName, 0)>>)

\* (*FastTypedDataEncoder).encodeType
encodeTypeSteps(typeName) ==
    Memo("globalEncoderCache", "encodedTypes", typeName,
         dependenciesSteps(typeName) \o <<ReadTypesI("fields", typeName, 0)>>)

\* (*FastTypedDataEncoder).typeHash
typeHashSteps(typeName) ==
    Memo("globalEncoderCache", "typeHashes", typeName, encodeTypeSteps(typeName))

\* (*FastTypedDataEncoder).hashStruct of a struct whose fields are primitive
hashStructSteps(typeName) ==
    typeHashSteps(typeName) \o <<ReadTypesI("encodeData", typeName, 0)>>

\* (*FastTypedDataEncoder).Hash, and the return of SignTypedDataFast
HashSteps(primaryType) ==
    <<ReadTypesI("validate", "", 0), ReadTypesI("hasDomain", "EIP712Domain", 1),
      I("putTypes", "", "", "EIP712Domain", 0)>>
    \o hashStructSteps("EIP712Domain") \o hashStructSteps(primaryType)
    \o <<I("return", "", "", "", 0)>>

\* (*OptimizedSigner).getCachedDomainTypes
getCachedDomainTypesSteps == Memo("globalTypeCache", "domainTypes", "", <<>>)

\* inferTypesOptimizedWithCache
inferTypesOptimizedWithCacheSteps == Memo("inferredTypesCache", "cache", "", <<>>)

\* the map a goroutine's call reads as its schema
TypesNow(t) == IF gor[t].src.shared THEN heap[gor[t].src.id] ELSE gor[t].types

\* the memory location of that map: a map of the caller or of the package, or
\* a map made for this call
TypesLoc(t) ==
    IF gor[t].src.shared THEN <<"map", gor[t].src.id, 0>> ELSE <<"map", "local", t>>

\* the instruction a goroutine is at
At(t, k) == gor[t].todo # <<>> /\ Head(gor[t].todo).k = k

\* a goroutine that is in no call may enter one
CanBegin(t) == gor[t].op = "none" /\ gor[t].calls < MaxCalls

\* the goroutine inside the call, before its first step; a map made for the
\* call starts as the schema the caller wrote
Begin(t, op, dom, src, pt, mid, todo) ==
    [gor EXCEPT ![t] =
        [Idle EXCEPT !.op = op, !.dom = dom, !.src = src, !.pt = pt, !.mid = mid,
                     !.todo = todo,
                     !.types = IF src.shared \/ src.id = "" THEN EmptyMap
                               ELSE Catalogue[src.id],
                     !.calls = gor[t].calls + 1]]

\* (*Signer).SignTypedData: validateNoCycles, the loop over types, the return
StartSignTypedData(t, dom, src, pt, mid) ==
    /\ CanBegin(t)
    /\ gor' = Begin(t, "SignTypedData", dom, src, pt, mid,
                    <<ReadTypesI("validate", "", 0), ReadTypesI("range", "", 0),
                      I("return", "", "", "", 0)>>)
    /\ UNCHANGED <<heap, encCache, domainTypes, held, last, kept, inferredTypesCache, mu>>

\* (*OptimizedSigner).SignTypedDataOptimized: as SignTypedData, then
\* getCachedDomainTypes when the schema has no EIP712Domain
StartSignTypedDataOptimized(t, dom, src, pt, mid) ==
    /\ CanBegin(t)
    /\ gor' = Begin(t, "SignTypedDataOptimized", dom, src, pt, mid,
                    <<ReadTypesI("validate", "", 0),
                      ReadTypesI("range", "EIP712Domain",
                                 Len(getCachedDomainTypesSteps))>>
                    \o getCachedDomainTypesSteps \o <<I("return", "", "", "", 0)>>)
    /\ UNCHANGED <<heap, encCache, domainTypes, held, last, kept, inferredTypesCache, mu>>

\* (*FastSigner).SignTypedDataFast
StartSignTypedDataFast(t, dom, src, pt, mid) ==
    /\ CanBegin(t)
    /\ gor' = Begin(t, "SignTypedDataFast", dom, src, pt, mid, HashSteps(pt))
    /\ UNCHANGED <<heap, encCache, domainTypes, held, last, kept, inferredTypesCache, mu>>

\* (*FastSigner).SignPermitFastOptimized: SignTypedDataFast on permitTypes
StartSignPermitFastOptimized(t, dom) ==
    /\ CanBegin(t)
    /\ gor' = Begin(t, "SignPermitFastOptimized", dom, Shared("permitTypes"),
                    "Permit", "", HashSteps("Permit"))
    /\ UNCHANGED <<heap, encCache, domainTypes, held, last, kept, inferredTypesCache, mu>>

\* (*FastSigner).SignMessageFastOptimized: SignTypedDataFast on a new map that
\* holds the inferred schema
StartSignMessageFastOptimized(t, mid) ==
    /\ CanBegin(t)
    /\ gor' = Begin(t, "SignMessageFastOptimized", "chain", Fresh(""), "Message", mid,
                    inferTypesOptimizedWithCacheSteps \o HashSteps("Message"))
    /\ UNCHANGED <<heap, encCache, domainTypes, held, last, kept, inferredTypesCache, mu>>

\* the goroutine leaves its instruction behind
Advance(t) == [gor EXCEPT ![t].todo = Tail(@)]

\* the call returns from where it is: the error paths hold no lock
Abort(t) == [gor EXCEPT ![t].todo = <<I("return", "", "", "", 0)>>]

\* as Skip, with the RUnlock of the hit path left out
SkipWithoutRUnlock(t) ==
    [gor EXCEPT ![t].todo = SubSeq(@, 3 + Head(@).miss, Len(@))]

\* a hit: the goroutine unlocks and skips the instructions of the miss path
Skip(t) ==
    [gor EXCEPT ![t].todo =
        <<@[2]>> \o SubSeq(@, 3 + Head(@).miss, Len(@))]

\* mu.RLock(): waits while a writer holds the mutex or is inside Lock
RLock(t) ==
    /\ At(t, "RLock")
    /\ \E c \in {Head(gor[t].todo).c} :
           /\ mu[c].writer = NoThread
           /\ mu[c].waiting = {}
           /\ mu' = [mu EXCEPT ![c].readers = @ \cup {t}]
    /\ gor' = Advance(t)
    /\ UNCHANGED <<heap, encCache, domainTypes, held, last, kept, inferredTypesCache>>

\* mu.RUnlock()
RUnlock(t) ==
    /\ At(t, "RUnlock")
    /\ mu' = [mu EXCEPT ![Head(gor[t].todo).c].readers = @ \ {t}]
    /\ gor' = Advance(t)
    /\ UNCHANGED <<heap, encCache, domainTypes, held, last, kept, inferredTypesCache>>

\* mu.Lock(), first half: the writer announces itself, which holds new
\* readers off
Lock(t) ==
    /\ At(t, "Lock")
    /\ mu' = [mu EXCEPT ![Head(gor[t].todo).c].waiting = @ \cup {t}]
    /\ gor' = [gor EXCEPT ![t].todo =
                 <<I("acquire", Head(@).c, "", "", 0)>> \o Tail(@)]
    /\ UNCHANGED <<heap, encCache, domainTypes, held, last, kept, inferredTypesCache>>

\* mu.Lock(), second half: the writer waits for the readers and for the
\* writer before it
Acquire(t) ==
    /\ At(t, "acquire")
    /\ \E c \in {Head(gor[t].todo).c} :
           /\ mu[c].writer = NoThread
           /\ mu[c].readers = {}
           /\ mu' = [mu EXCEPT ![c].writer = t, ![c].waiting = @ \ {t}]
    /\ gor' = Advance(t)
    /\ UNCHANGED <<heap, encCache, domainTypes, held, last, kept, inferredTypesCache>>

\* mu.Unlock()
Unlock(t) ==
    /\ At(t, "Unlock")
    /\ mu' = [mu EXCEPT ![Head(gor[t].todo).c].writer = NoThread]
    /\ gor' = Advance(t)
    /\ UNCHANGED <<heap, encCache, domainTypes, held, last, kept, inferredTypesCache>>

\* the cache map an instruction names, and the key it has for this call
CacheMap(map) ==
    IF map = "domainTypes" THEN domainTypes
    ELSE IF map = "cache" THEN inferredTypesCache
    ELSE encCache[map]

CacheKey(t) ==
    IF Head(gor[t].todo).map = "domainTypes" THEN domainCacheKey(Domains[gor[t].dom])
    ELSE IF Head(gor[t].todo).map = "cache" THEN generateTypesCacheKey(Messages[gor[t].mid])
    ELSE Head(gor[t].todo).key

\* value, ok := cache[key]: with the value found the goroutine unlocks and
\* returns it, else it unlocks and computes the value
ReadCache(t) ==
    /\ At(t, "read")
    /\ \E map \in {Head(gor[t].todo).map}, key \in {CacheKey(t)} :
           gor' = IF key \notin DOMAIN CacheMap(map) THEN Advance(t)
                 ELSE [Skip(t) EXCEPT
                          ![t].deps = IF map = "dependencies"
                                      THEN CacheMap(map)[key] ELSE @,
                          ![t].encoded = IF map = "encodedTypes"
                                         THEN CacheMap(map)[key] ELSE @,
                          ![t].types = IF map = "cache"
                                       THEN [Message |-> CacheMap(map)[key]] ELSE @]
    /\ UNCHANGED <<heap, encCache, domainTypes, held, last, kept, inferredTypesCache, mu>>

\* the schema inferTypesOptimizedWithCache infers for the call's message
InferredNow(t) ==
    inferTypesOptimizedWithCache(Messages[gor[t].mid], EmptyMap).out

\* cache[key] = value
WriteCache(t) ==
    /\ At(t, "write")
    /\ \E map \in {Head(gor[t].todo).map}, key \in {CacheKey(t)} :
           /\ encCache' =
                  IF map = "dependencies"
                  THEN [encCache EXCEPT !.dependencies = Put(@, key, gor[t].deps)]
                  ELSE IF map = "encodedTypes"
                  THEN [encCache EXCEPT !.encodedTypes = Put(@, key, gor[t].encoded)]
                  ELSE IF map = "typeHashes"
                  THEN [encCache EXCEPT
                           !.typeHashes = Put(@, key, Keccak256(gor[t].encoded))]
                  ELSE encCache
           /\ domainTypes' =
                  IF map = "domainTypes"
                  THEN Put(domainTypes, key, buildDomainTypes(Domains[gor[t].dom]))
                  ELSE domainTypes
           /\ inferredTypesCache' =
                  IF map = "cache" THEN Put(inferredTypesCache, key, InferredNow(t))
                  ELSE inferredTypesCache
           /\ gor' = IF map = "cache"
                    THEN [Advance(t) EXCEPT ![t].types = [Message |-> InferredNow(t)]]
                    ELSE Advance(t)
    /\ UNCHANGED <<heap, held, last, kept, mu>>

\* a read of the types map: validateNoCycles, the range loop of the
\* converters, the test for EIP712Domain, findDependencies, the fields that
\* encodeType and encodeData fetch
ReadTypes(t) ==
    /\ At(t, "types")
    /\ \E what \in {Head(gor[t].todo).map}, name \in {Head(gor[t].todo).key},
          types \in {TypesNow(t)} :
           gor' = IF what = "validate"
                 THEN IF IsErr(validateNoCycles(types, SortStrings(DOMAIN types)))
                      THEN Abort(t) ELSE Advance(t)
                 ELSE IF what \in {"hasDomain", "range"}
                 THEN IF name \in DOMAIN types
                      THEN [gor EXCEPT ![t].todo =
                               SubSeq(@, 2 + Head(@).miss, Len(@))]
                      ELSE Advance(t)
                 ELSE IF what = "findDependencies"
                 THEN [Advance(t) EXCEPT
                          ![t].deps = SortStrings(findDependencies(types, name, {}))]
                 ELSE IF what = "fields"
                 THEN IF name \notin DOMAIN types THEN Abort(t)
                      ELSE [Advance(t) EXCEPT
                               ![t].encoded =
                                   Declaration(name, types[name])
                                   \o DependencyParts(types, name, gor[t].deps, 1)]
                 ELSE IF name \notin DOMAIN types THEN Abort(t) ELSE Advance(t)
    /\ UNCHANGED <<heap, encCache, domainTypes, held, last, kept, inferredTypesCache, mu>>

\* e.Types["EIP712Domain"] = e.buildDomainTypes()
WriteTypes(t) ==
    /\ At(t, "putTypes")
    /\ \E fields \in {encoderBuildDomainTypes(Domains[gor[t].dom])} :
           IF gor[t].src.shared
           THEN /\ heap' = [heap EXCEPT ![gor[t].src.id] = Put(@, "EIP712Domain", fields)]
                /\ gor' = Advance(t)
           ELSE /\ gor' = [Advance(t) EXCEPT ![t].types = Put(@, "EIP712Domain", fields)]
                /\ UNCHANGED heap
    /\ UNCHANGED <<encCache, domainTypes, held, last, kept, inferredTypesCache, mu>>

\* the call returns
Return(t) ==
    /\ At(t, "return")
    /\ gor' = [gor EXCEPT ![t] = [Idle EXCEPT !.calls = gor[t].calls]]
    /\ UNCHANGED <<heap, encCache, domainTypes, held, last, kept, inferredTypesCache, mu>>

\* a step of a goroutine inside its call
Step(t) ==
    \/ RLock(t)
    \/ RUnlock(t)
    \/ Lock(t)
    \/ Acquire(t)
    \/ Unlock(t)
    \/ ReadCache(t)
    \/ WriteCache(t)
    \/ ReadTypes(t)
    \/ WriteTypes(t)
    \/ Return(t)

\* the schemas, domains and messages of the concurrent calls
ConcurrentMaps == {Shared("msgA"), Fresh("msgA")}

ConcurrentDomains == {"chain"}

ConcurrentMessages == {"iHello", "iFlag"}

NextConcurrent ==
    \E t \in Threads :
        \/ \E dom \in ConcurrentDomains, src \in ConcurrentMaps :
               \/ StartSignTypedData(t, dom, src, "Message", "mA")
               \/ StartSignTypedDataOptimized(t, dom, src, "Message", "mA")
               \/ StartSignTypedDataFast(t, dom, src, "Message", "mA")
        \/ \E dom \in ConcurrentDomains : StartSignPermitFastOptimized(t, dom)
        \/ \E mid \in ConcurrentMessages : StartSignMessageFastOptimized(t, mid)
        \/ Step(t)

SpecConcurrent == Init /\ [][NextConcurrent]_vars

\* the map access a goroutine is about to make
Accesses(t) == At(t, "read") \/ At(t, "write") \/ At(t, "types") \/ At(t, "putTypes")

Writes(t) == At(t, "write") \/ At(t, "putTypes")

Location(t) ==
    IF At(t, "read") \/ At(t, "write")
    THEN <<"cache", Head(gor[t].todo).map, 0>>
    ELSE TypesLoc(t)

\* two goroutines are about to access one map, one of them writing it
DataRace(t, u) ==
    /\ t # u
    /\ Accesses(t) /\ Accesses(u)
    /\ Location(t) = Location(u)
    /\ Writes(t) \/ Writes(u)

\* the sign calls that are documented as safe to run concurrently
ConcurrentSignOps ==
    {"SignTypedData", "SignTypedDataFast", "SignPermitFastOptimized",
     "SignMessageFastOptimized"}

\* C15: concurrent sign calls are free of data races: never are two goroutines,
\* each inside SignTypedData, SignTypedDataFast, SignPermitFastOptimized or
\* SignMessageFastOptimized, about to access the same map with one of them
\* writing it.
ConcurrentSigningIsRaceFree ==
    \A t, u \in Threads :
        (gor[t].op \in ConcurrentSignOps /\ gor[u].op \in ConcurrentSignOps)
            => ~DataRace(t, u)

\* the calls that go through the three caches, on maps made for the call
NextCache ==
    \E t \in Threads :
        \/ \E dom \in ConcurrentDomains :
               StartSignTypedDataOptimized(t, dom, Fresh("msgA"), "Message", "mA")
        \/ \E mid \in ConcurrentMessages : StartSignMessageFastOptimized(t, mid)
        \/ Step(t)

\* the scheduler runs every goroutine that can take a step
SpecCache ==
    Init /\ [][NextCache]_vars /\ \A t \in Threads : WF_vars(Step(t))

\* the mutex that guards a cache map
MutexOf(map) ==
    IF map = "domainTypes" THEN "globalTypeCache"
    ELSE IF map = "cache" THEN "inferredTypesCache"
    ELSE "globalEncoderCache"

\* reads of a cache map hold its mutex in read mode and writes in write mode;
\* a writer excludes the readers; no two goroutines are at one cache map with
\* one of them writing; a goroutine in no call holds and awaits no lock
CacheLockDiscipline ==
    /\ \A t \in Threads :
           /\ At(t, "read") => t \in mu[MutexOf(Head(gor[t].todo).map)].readers
           /\ At(t, "write") => mu[MutexOf(Head(gor[t].todo).map)].writer = t
           /\ gor[t].op = "none" =>
                  \A c \in Mutexes :
                      /\ t \notin mu[c].readers \cup mu[c].waiting
                      /\ mu[c].writer # t
    /\ \A c \in Mutexes : mu[c].writer # NoThread => mu[c].readers = {}
    /\ \A t, u \in Threads : DataRace(t, u) => Location(t)[1] # "cache"

\* C16: the cache layer is safe for concurrent readers and writers: every read
\* of a cache map holds the cache's RWMutex in read mode and every write holds
\* it in write mode, no two goroutines access a cache map concurrently with
\* one writing, every lock taken is released on every path, and every call
\* returns, so that no goroutine blocks forever on a cache lock.
CacheLayerIsSafe ==
    /\ []CacheLockDiscipline
    /\ <>[](\A t \in Threads : gor[t].op = "none")

\* a goroutine stores into a cache under the write lock while the other one
\* waits at the RLock of the same cache
WriterHoldsOffAReader ==
    \E t, u \in Threads :
        /\ At(t, "write") /\ mu[MutexOf(Head(gor[t].todo).map)].writer = t
        /\ At(u, "RLock") /\ Head(gor[u].todo).c = MutexOf(Head(gor[t].todo).map)

\* the five maps of the three caches
CacheMaps == {"typeHashes", "encodedTypes", "dependencies", "domainTypes", "cache"}

\* C26: under any interleaving of concurrent calls, each cache key is
\* computed and inserted at most once, the miss being filled under the
\* exclusive lock, and a value once inserted for a key is never replaced by
\* a different value.
CacheIsFilledOnce ==
    [][/\ \A t \in Threads :
              (At(t, "write") /\ gor'[t] # gor[t])
                  => CacheKey(t) \notin DOMAIN CacheMap(Head(gor[t].todo).map)
       /\ \A map \in CacheMaps :
              \A key \in DOMAIN CacheMap(map) :
                  /\ key \in DOMAIN CacheMap(map)'
                  /\ CacheMap(map)'[key] = CacheMap(map)[key]]_vars

\* the type names an encoded type declares: the first token and every token
\* that follows the ")" of a declaration
DeclaredTypes(encoded) ==
    {encoded[i] : i \in {j \in DOMAIN encoded : j = 1 \/ encoded[j - 1] = ")"}}

\* C29: in every reachable state of the process-wide encoder cache, under
\* any interleaving of concurrent Hash calls, a type name with an entry in
\* typeHashes and in encodedTypes has typeHashes[n] = keccak256(encodedTypes[n]),
\* and encodedTypes[n] declares exactly the types of dependencies[n].
CacheIsConsistent ==
    /\ \A n \in DOMAIN encCache.typeHashes \cap DOMAIN encCache.encodedTypes :
           encCache.typeHashes[n] = Keccak256(encCache.encodedTypes[n])
    /\ \A n \in DOMAIN encCache.encodedTypes \cap DOMAIN encCache.dependencies :
           DeclaredTypes(encCache.encodedTypes[n])
               = {encCache.dependencies[n][i] : i \in DOMAIN encCache.dependencies[n]}

-----------------------------------------------------------------------------
(* The caller's message across the calls *)

\* the values the caller puts into the message it keeps: *big.Int values
\* below zero, within 256 bits and from 2^256 on, and a decimal text
KeptValues ==
    <<VBigInt(0 - 1), VBigInt(0), VBigInt(1), VBigPow256(0), VBigPow256(1),
      VString("1")>>

\* the caller stores a value in the message between two calls
CallerSets(field, n) ==
    /\ kept' = [kept EXCEPT ![field] = KeptValues[n]]
    /\ last' = [NoCall EXCEPT !.op = "caller"]
    /\ UNCHANGED <<heap, encCache, domainTypes, held, inferredTypesCache, conc>>

NextFrame ==
    \/ \E field \in DOMAIN kept, n \in DOMAIN KeptValues : CallerSets(field, n)
    \/ \E key \in SignKeys, keep \in BOOLEAN :
           \/ CallSignTypedData(key, "chain", Fresh("ints"), "Message", "kept",
                                <<"Message">>, keep)
           \/ CallSignTypedDataOptimized(key, "chain", Fresh("ints"), "Message", "kept",
                                         <<"Message">>, keep)
           \/ CallSignTypedDataFast(key, "chain", Fresh("ints"), "Message", "kept",
                                    <<"Message">>, keep)
    \/ CallRecover("chain", Fresh("ints"), "Message", "kept")
    \/ CallVerifySignature(Signer1, "chain", Fresh("ints"), "Message", "kept")
    \/ CallRecoverSignatureFast("chain", Fresh("ints"), "Message", "kept", <<"Message">>)
    \/ CallVerifySignatureFast(Signer1, "chain", Fresh("ints"), "Message", "kept",
                               <<"Message">>)

SpecFrame == Init /\ [][NextFrame]_vars

\* C17: no sign or recover operation modifies the caller's message: after the
\* call every value of the message, the *big.Int values included, is the
\* value it was before the call.
MessageIsNotMutated ==
    [][last'.op \in SignOps \cup RecoverOps \cup VerifyOps \cup FastOps
           => kept' = kept]_vars

-----------------------------------------------------------------------------
(* Permits *)

CallSignPermit(key, a) ==
    /\ \E r \in {SignPermit(key, a)} :
           /\ last' = [NoCall EXCEPT !.op = "SignPermit", !.key = key, !.pt = "Permit",
                           !.args = a, !.err = r.err, !.sig = r.sig, !.td = r.td]
           /\ UNCHANGED <<heap, encCache, domainTypes, held>>
           /\ UNCHANGED rest

CallSignPermitFast(key, a) ==
    /\ \E r \in {SignPermitFast(key, a, encCache)} :
           /\ last' = [NoCall EXCEPT !.op = "SignPermitFast", !.key = key,
                           !.pt = "Permit", !.args = a, !.err = r.err, !.sig = r.sig,
                           !.td = r.td]
           /\ encCache' = r.cache
           /\ UNCHANGED <<heap, domainTypes, held>>
           /\ UNCHANGED rest

CallSignPermitFastOptimized(key, a) ==
    /\ \E r \in {SignPermitFastOptimized(key, a, encCache, heap["permitTypes"])} :
           /\ last' = [NoCall EXCEPT !.op = "SignPermitFastOptimized", !.key = key,
                           !.pt = "Permit", !.args = a, !.err = r.err, !.sig = r.sig,
                           !.before = heap["permitTypes"], !.td = r.td]
           /\ encCache' = r.cache
           /\ heap' = [heap EXCEPT !["permitTypes"] = r.types]
           /\ UNCHANGED <<domainTypes, held>>
           /\ UNCHANGED rest

\* the permits of the model: one token, two spenders, two values
Permits ==
    {PermitArgs("c0de", "App", "1", spender, value, 0, 1) :
        spender \in {"c0de", "adk2"}, value \in {0, 1}}

\* the process signs permits and, with the fast signer, messages of a domain
\* that names no contract
NextPermit ==
    \/ \E key \in Keys, a \in Permits :
           \/ CallSignPermit(key, a)
           \/ CallSignPermitFast(key, a)
           \/ CallSignPermitFastOptimized(key, a)
    \/ \E key \in SignKeys, keep \in BOOLEAN :
           CallSignTypedDataFast(key, "chain", Fresh("msgA"), "Message", "mA",
                                 <<"Message">>, keep)

SpecPermit == Init /\ [][NextPermit]_vars

PermitOps == {"SignPermit", "SignPermitFast", "SignPermitFastOptimized"}

\* the EIP-712 digest of the permit of the arguments, as hex text
PermitHash(key, a) ==
    HexEncode(TypedDataAndHash(
                  WithDomainType(permitTypes, buildDomainTypes(PermitDomain(a))),
                  domainToAPITypes(PermitDomain(a)), "Permit",
                  PermitMessage(key, a)).out)

\* C18: each of SignPermit, SignPermitFast and SignPermitFastOptimized signs
\* the Permit message whose owner is the signer's address under the domain of
\* the token name, the token version, the signer's chain id and the token
\* contract: the call succeeds as SignPermit does, its Hash is the digest of
\* that typed data (so the three return the same Hash), and recovering the
\* signature with that domain, the Permit schema and that message yields the
\* signer's address.
PermitIsSigned ==
    last.op \in PermitOps =>
        /\ ~IsErr(last.err)
        /\ last.sig.Hash = PermitHash(last.key, last.args)
        /\ last.sig.Hash = SignPermit(last.key, last.args).sig.Hash
        /\ Recover(last.sig, PermitDomain(last.args), permitTypes, "Permit",
                   PermitMessage(last.key, last.args)).addr
               = PubkeyToAddress(last.key)

-----------------------------------------------------------------------------
(* The type encoder on its own *)

\* (*FastTypedDataEncoder).dependencies of an encoder made for the schema
CallDependencies(id, typeName) ==
    /\ \E r \in {dependencies(Catalogue[id], encCache, typeName)} :
           /\ last' = [NoCall EXCEPT !.op = "dependencies", !.src = Fresh(id),
                           !.pt = typeName, !.before = Catalogue[id], !.out = r.out]
           /\ encCache' = r.cache
           /\ UNCHANGED <<heap, domainTypes, held>>
           /\ UNCHANGED rest

\* (*FastTypedDataEncoder).encodeType of an encoder made for the schema
CallEncodeType(id, typeName) ==
    /\ \E r \in {encodeType(Catalogue[id], encCache, typeName)} :
           /\ last' = [NoCall EXCEPT !.op = "encodeType", !.src = Fresh(id),
                           !.pt = typeName, !.before = Catalogue[id],
                           !.err = r.err, !.out = r.out]
           /\ encCache' = r.cache
           /\ UNCHANGED <<heap, domainTypes, held>>
           /\ UNCHANGED rest

\* (*FastTypedDataEncoder).typeHash of an encoder made for the schema
CallTypeHash(id, typeName) ==
    /\ \E r \in {typeHash(Catalogue[id], encCache, typeName)} :
           /\ last' = [NoCall EXCEPT !.op = "typeHash", !.src = Fresh(id),
                           !.pt = typeName, !.before = Catalogue[id],
                           !.err = r.err, !.out = r.out]
           /\ encCache' = r.cache
           /\ UNCHANGED <<heap, domainTypes, held>>
           /\ UNCHANGED rest

\* the acyclic schemas the encoder is made for, each with the type asked for
EncoderCalls ==
    {<<"msgA", "Message">>, <<"diamond", "A">>, <<"fan", "A">>, <<"deep", "A">>,
     <<"dangling", "A">>}

NextEncoder ==
    \E c \in EncoderCalls :
        \/ CallDependencies(c[1], c[2])
        \/ CallEncodeType(c[1], c[2])
        \/ CallTypeHash(c[1], c[2])

SpecEncoder == Init /\ [][NextEncoder]_vars

\* the primitive type names of EIP-712 among the spellings of the model
Primitives ==
    {"address", "bool", "string", "bytes", "bytes1", "bytes2", "bytes32", "uint8",
     "uint256", "int8", "int256"}

\* typeName and the custom types referenced from it through fields, the
\* element type standing for an array of any form
DependencySet(types, typeName) == ReachableFrom(types, {typeName}, {})

\* a field of a type in the dependency set names a type that is neither
\* primitive nor defined
HasUndefinedReference(types, typeName) ==
    \E t \in DependencySet(types, typeName) :
        \E i \in DOMAIN types[t] :
            types[t][i].Type.base \notin Primitives \cup DOMAIN types

\* the declarations of the names from the i-th on
RECURSIVE Declarations(_, _, _)
Declarations(types, names, i) ==
    IF i > Len(names) THEN <<>>
    ELSE Declaration(names[i], types[names[i]]) \o Declarations(types, names, i + 1)

\* the declaration of typeName, then those of the rest of its dependency set
\* in ascending order
CanonicalEncodeType(types, typeName) ==
    Declaration(typeName, types[typeName])
    \o Declarations(types, SortStrings(DependencySet(types, typeName) \ {typeName}), 1)

\* C19: for an acyclic schema and a type T it defines, encodeType(T) is the
\* declaration of T followed by the declarations of the other types of T's
\* dependency set, once each in ascending order of name, fields in declared
\* order; typeHash(T) is keccak256 of that string, computed from the schema
\* of the current call.
EncodeTypeIsCanonical ==
    /\ last.op = "encodeType" =>
           /\ ~IsErr(last.err)
           /\ last.out = CanonicalEncodeType(last.before, last.pt)
    /\ last.op = "typeHash" =>
           /\ ~IsErr(last.err)
           /\ last.out = Keccak256(CanonicalEncodeType(last.before, last.pt))

\* C20: dependencies(T) holds T and every custom type referenced from T
\* through fields, an array of any form ([], [k], [][], [3][]) referencing
\* its element type; a field that names a type neither primitive nor defined
\* makes it return an error.
DependenciesAreTransitive ==
    last.op = "dependencies" =>
        IF HasUndefinedReference(last.before, last.pt)
        THEN IsErr(last.err)
        ELSE /\ ~IsErr(last.err)
             /\ {last.out[i] : i \in DOMAIN last.out}
                    = DependencySet(last.before, last.pt)

-----------------------------------------------------------------------------
(* Type spellings: one field "data" of each spelling, signed by Signer and  *)
(* FastSigner                                                                *)

SpellingCalls ==
    {Call(Fresh(id), "Message", mid) :
         id \in {"badUint", "badInt", "badBytes", "badName", "badEmpty", "badSpace",
                 "okUint", "okBytes"},
         mid \in {"mData", "mDataHex"}}

NextSpelling ==
    \E key \in SignKeys, dom \in SignDomains, c \in SpellingCalls :
        \/ CallSignTypedData(key, dom, c.src, c.pt, c.mid, <<"Message">>, FALSE)
        \/ CallSignTypedDataFast(key, dom, c.src, c.pt, c.mid, <<"Message">>, FALSE)

SpecSpelling == Init /\ [][NextSpelling]_vars

\* a field of the schema has a type that is neither defined in the schema nor
\* a legal primitive, whatever its array suffixes
HasMalformedSpelling(types) ==
    \E t \in DOMAIN types :
        \E i \in DOMAIN types[t] :
            types[t][i].Type.base \notin Primitives \cup DOMAIN types

\* C21: SignTypedData and SignTypedDataFast return an error when a field's
\* type is neither defined in the schema nor a legal primitive: uint257,
\* int512, bytes33, the empty type, "uint 256", notAType.
MalformedSpellingsAreRejected ==
    (/\ last.op \in {"SignTypedData", "SignTypedDataFast"}
     /\ HasMalformedSpelling(last.before))
        => (IsErr(last.err) /\ last.sig = NilSignature)

-----------------------------------------------------------------------------
(* The leaf encoders on their own *)

\* the values handed to encodeInteger: *big.Int numbers around the bounds of
\* 8 and 256 bits, and texts
IntegerValues ==
    <<VBigInt(0 - 129), VBigInt(0 - 128), VBigInt(0 - 1), VBigInt(0), VBigInt(1),
      VBigInt(127), VBigInt(128), VBigInt(255), VBigInt(256),
      VBigPow256(0 - 1), VBigPow256(0), VBigPow256(1),
      [k |-> "*big.Int", v |-> Big(0 - 1, 0)], [k |-> "*big.Int", v |-> Big(0 - 1, 1)],
      VString("0"), VString("1"), VString("2"), VString(HexText("c0de")),
      VString("0xzz"), VString("one"), VNil, VBool(TRUE), VInt(1)>>

IntegerTypes == {T("uint8"), T("uint256"), T("int8"), T("int256")}

\* (*FastTypedDataEncoder).encodeInteger
CallEncodeInteger(fieldType, n) ==
    /\ \E r \in {encodeInteger(fieldType, IntegerValues[n])} :
           /\ last' = [NoCall EXCEPT !.op = "encodeInteger",
                           !.args = <<fieldType, IntegerValues[n]>>,
                           !.err = r.err, !.out = r.out]
           /\ UNCHANGED <<heap, encCache, domainTypes, held>>
           /\ UNCHANGED rest

\* the values handed to encodePrimitive
PrimitiveValues ==
    <<VBool(TRUE), VBool(FALSE), VString("true"), VString("1"), VString("false"),
      VString("0"), VString("yes"), VString("hi"), VString(""),
      VString(HexText("c0de")), VString(HexText(ZeroSalt)), VString("0xzz"),
      VNil, VInt(1), VBigInt(1), VFloat("1.5"), VBytes("aa", 1), VBytes("a33", 33)>>

PrimitiveTypes ==
    {T("address"), T("bool"), T("string"), T("bytes"), T("bytes1"), T("bytes32"),
     T("bytes33"), T("uint8"), T("notAType")}

\* (*FastTypedDataEncoder).encodePrimitive
CallEncodePrimitive(fieldType, n) ==
    /\ \E r \in {encodePrimitive(fieldType, PrimitiveValues[n])} :
           /\ last' = [NoCall EXCEPT !.op = "encodePrimitive",
                           !.args = <<fieldType, PrimitiveValues[n]>>,
                           !.err = r.err, !.out = r.out]
           /\ UNCHANGED <<heap, encCache, domainTypes, held>>
           /\ UNCHANGED rest

\* the values handed to encodeValue for an array type
ArrayValues ==
    <<VSlice(<<>>), VSlice(<<VString("a")>>), VSlice(<<VString("a"), VString("b")>>),
      VSlice(<<VString("b"), VString("a")>>), VSlice(<<VString("1")>>),
      VSlice(<<VString("1"), VString("2")>>), VSlice(<<VString("2"), VString("1")>>),
      VSlice(<<VString("1"), VString("2"), VString("1")>>),
      VSlice(<<VBool(TRUE), VBool(FALSE)>>),
      VSlice(<<VSlice(<<VString("a")>>), VSlice(<<>>)>>),
      VSlice(<<VSlice(<<VString("1"), VString("2")>>)>>),
      VString("a"), VNil, VInt(1), VMap(EmptyMap), VBytes("", 0), VBytes("aa", 1)>>

ArrayTypes ==
    {Arr(T("string"), "[]"), Arr(T("string"), "[2]"), Arr(T("uint256"), "[]"),
     Arr(T("uint256"), "[1]"), Arr(T("uint256"), "[2]"), Arr(T("bool"), "[]"),
     Arr(Arr(T("string"), "[]"), "[]"), Arr(Arr(T("uint256"), "[2]"), "[]")}

\* (*FastTypedDataEncoder).encodeValue of an encoder whose schema defines no
\* struct
CallEncodeValue(fieldType, n) ==
    /\ \E r \in {encodeValue(EmptyMap, encCache, fieldType, ArrayValues[n])} :
           /\ last' = [NoCall EXCEPT !.op = "encodeValue",
                           !.args = <<fieldType, ArrayValues[n]>>,
                           !.err = r.err, !.out = r.out]
           /\ encCache' = r.cache
           /\ UNCHANGED <<heap, domainTypes, held>>
           /\ UNCHANGED rest

NextLeaf ==
    \/ \E fieldType \in ArrayTypes, n \in DOMAIN ArrayValues :
           CallEncodeValue(fieldType, n)
    \/ \E fieldType \in IntegerTypes, n \in DOMAIN IntegerValues :
           CallEncodeInteger(fieldType, n)
    \/ \E fieldType \in PrimitiveTypes, n \in DOMAIN PrimitiveValues :
           CallEncodePrimitive(fieldType, n)

SpecLeaf == Init /\ [][NextLeaf]_vars

\* the width N of uintN and intN
Width == [uint8 |-> 8, uint256 |-> 256, int8 |-> 8, int256 |-> 256]

\* q * 2^256 + d lies in the range of the integer type
FitsType(base, x) ==
    IF base = "uint8" THEN x.q = 0 /\ x.d >= 0 /\ x.d < 256
    ELSE IF base = "int8" THEN x.q = 0 /\ x.d >= 0 - 128 /\ x.d <= 127
    ELSE IF base = "uint256" THEN (x.q = 0 /\ x.d >= 0) \/ (x.q = 1 /\ x.d < 0)
    ELSE x.q = 0

\* the 32-byte big-endian two's complement of a number in range: the
\* number itself, or 2^256 plus it when it is negative
TwosComplement(x) ==
    IF x.q = 0 /\ x.d < 0 THEN <<"word", "2^256", IntString(x.d)>>
    ELSE IF x.q = 0 THEN <<"word", IntString(x.d)>>
    ELSE <<"word", "2^256", IntString(x.d)>>

\* C22: encodeInteger returns an error for a uintN value below 0 or from
\* 2^N on, and for an intN value below -2^(N-1) or above 2^(N-1)-1; a value
\* in range encodes to its 32-byte big-endian two's complement.
IntegerRangeIsEnforced ==
    (last.op = "encodeInteger" /\ last.args[2].k = "*big.Int")
        => IF FitsType(last.args[1].base, last.args[2].v)
           THEN ~IsErr(last.err) /\ last.out = TwosComplement(last.args[2].v)
           ELSE IsErr(last.err)

\* the value is a boolean or one of the four texts that spell one
SpellsBool(value) ==
    \/ value.k = "bool"
    \/ value.k = "string" /\ value.v \in {"true", "1", "false", "0"}

\* C23: a leaf value that its declared type cannot represent is an error and
\* is never coerced: for bool, any value but a boolean or "true", "1",
\* "false", "0"; for bytes and bytesN, a string that is not 0x-prefixed hex.
LeafValuesAreNotCoerced ==
    last.op = "encodePrimitive" =>
        /\ (last.args[1] = T("bool") /\ ~SpellsBool(last.args[2]))
               => IsErr(last.err)
        /\ (/\ last.args[1] \in {T("bytes"), T("bytes1"), T("bytes32")}
            /\ last.args[2].k = "string"
            /\ ~IsHexText(last.args[2].v))
               => IsErr(last.err)

\* the number k of a suffix [k]
ArrayLength == [s \in {"[1]", "[2]", "[3]"} |-> CHOOSE k \in 1..3 : "[" \o ToString(k) \o "]" = s]

\* the element type of an array type
ElementType(t) == [base |-> t.base, arr |-> SubSeq(t.arr, 1, Len(t.arr) - 1)]

\* the value is an ordered sequence, of the length the array type asks for
IsSequence(value) == value.k \in {"slice", "[]uint8"}

HasArrayLength(t, value) ==
    \/ t.arr[Len(t.arr)] = "[]"
    \/ Len(SliceElements(value)) = ArrayLength[t.arr[Len(t.arr)]]

\* the encoding of a value of a primitive or array type: keccak256 of the
\* encodings of the elements in sequence order
RECURSIVE ArrayEncoding(_, _)
RECURSIVE ElementEncodings(_, _, _)
ArrayEncoding(t, value) ==
    IF t.arr = <<>>
    THEN LET Leaf(p) == [ok |-> ~IsErr(p.err), out |-> p.out]
         IN  Leaf(encodePrimitive(t, value))
    ELSE IF ~IsSequence(value) THEN [ok |-> FALSE, out |-> <<>>]
    ELSE IF ~HasArrayLength(t, value) THEN [ok |-> FALSE, out |-> <<>>]
    ELSE LET Digest(e) == [ok |-> e.ok, out |-> IF e.ok THEN Keccak256(e.out) ELSE <<>>]
         IN  Digest(ElementEncodings(ElementType(t), SliceElements(value), 1))

ElementEncodings(t, elems, i) ==
    IF i > Len(elems) THEN [ok |-> TRUE, out |-> <<>>]
    ELSE LET Join(e, tail) == [ok |-> e.ok /\ tail.ok, out |-> e.out \o tail.out]
         IN  Join(ArrayEncoding(t, elems[i]), ElementEncodings(t, elems, i + 1))

\* C24: a field of type ElemType[] or ElemType[k] encodes to keccak256 of the
\* 32-byte encodings of its elements in sequence order (of the empty string
\* for no element); with [k], k encodable elements are encoded and any other
\* length is an error; a value that is not a sequence is an error.
ArraysAreEncoded ==
    (last.op = "encodeValue" /\ last.args[1].arr # <<>>)
        => /\ ~IsSequence(last.args[2]) => IsErr(last.err)
           /\ (IsSequence(last.args[2]) /\ ~HasArrayLength(last.args[1], last.args[2]))
                  => IsErr(last.err)
           /\ ArrayEncoding(last.args[1], last.args[2]).ok
                  => /\ ~IsErr(last.err)
                     /\ last.out = ArrayEncoding(last.args[1], last.args[2]).out

-----------------------------------------------------------------------------
(* The digest: FastTypedDataEncoder.Hash on its own *)

\* NewFastTypedDataEncoder(domain, types, primaryType, message).Hash()
CallHash(dom, src, pt, mid, order) ==
    LET types == TypesOf(src)
    IN  /\ \E r \in {Hash(types, Domains[dom], pt, MessageOf(mid), encCache, order)} :
           /\ last' = [NoCall EXCEPT !.op = "Hash", !.dom = dom, !.src = src,
                           !.pt = pt, !.mid = mid, !.before = types,
                           !.args = <<r.types>>, !.err = r.err, !.out = r.out]
           /\ encCache' = r.cache
           /\ heap' = IF src.shared THEN [heap EXCEPT ![src.id] = r.types] ELSE heap
           /\ kept' = IF mid = "kept"
                      THEN HashWrites(types, Domains[dom], pt, kept, encCache, order)
                      ELSE kept
           /\ UNCHANGED <<domainTypes, held, inferredTypesCache, conc>>

DigestCalls ==
    {Call(Fresh("msgA"), "Message", "mA"),
     Call(Shared("msgA"), "Message", "mA"),
     Call(Fresh("msgA"), "Message", "mAmissing"),
     Call(Fresh("msgB"), "Message", "mB"),
     Call(Fresh("nested"), "Outer", "mN"),
     Call(Fresh("nodeDyn"), "Node", "mNode"),
     Call(Fresh("leaves"), "Message", "mLeaves"),
     Call(Fresh("ints"), "Message", "kept")}

NextDigest ==
    \E dom \in {"base", "chain", "contract", "salt"}, c \in DigestCalls :
        \E order \in Orders(DOMAIN TypesOf(c.src)) :
            CallHash(dom, c.src, c.pt, c.mid, order)

SpecDigest == Init /\ [][NextDigest]_vars

\* the place of the ")" that closes the keccak256 opened before place i, the
\* type declarations inside holding parentheses of their own
RECURSIVE Close(_, _, _)
Close(b, i, depth) ==
    IF i > Len(b) THEN 0
    ELSE IF b[i] = ")" THEN (IF depth = 1 THEN i ELSE Close(b, i + 1, depth - 1))
    ELSE IF b[i] \in {"keccak256(", "("} THEN Close(b, i + 1, depth + 1)
    ELSE Close(b, i + 1, depth)

\* the byte string is one keccak256 digest, and what was hashed
IsKeccak(b) == Len(b) >= 2 /\ b[1] = "keccak256(" /\ Close(b, 2, 1) = Len(b)

Hashed(b) == SubSeq(b, 2, Len(b) - 1)

\* the last place of the 32-byte unit that starts at place i: a digest, an
\* integer word, a left-padded address or right-padded bytes; 0 when no
\* such unit starts there
UnitEnd(b, i) ==
    IF b[i] = "keccak256(" THEN Close(b, i + 1, 1)
    ELSE IF b[i] = "word"
    THEN (IF i + 1 <= Len(b) /\ b[i + 1] = "2^256" THEN i + 2 ELSE i + 1)
    ELSE IF b[i] = "pad12" THEN i + 1
    ELSE IF i + 1 <= Len(b) /\ b[i + 1] = "pad32" THEN i + 1
    ELSE 0

\* the byte string from place i on as a sequence of 32-byte units
RECURSIVE Words(_, _)
Words(b, i) ==
    IF i > Len(b) THEN [ok |-> TRUE, units |-> <<>>]
    ELSE IF UnitEnd(b, i) = 0 \/ UnitEnd(b, i) > Len(b)
    THEN [ok |-> FALSE, units |-> <<>>]
    ELSE LET Join(tail) ==
                 [ok |-> tail.ok,
                  units |-> <<SubSeq(b, i, UnitEnd(b, i))>> \o tail.units]
         IN  Join(Words(b, UnitEnd(b, i) + 1))

\* u is keccak256 of a 32-byte type hash and one 32-byte encoding for each
\* declared field of typeName in declaration order, a struct field being
\* such a struct hash itself
RECURSIVE IsStructHash(_, _, _, _)
IsStructHash(types, typeName, data, u) ==
    /\ IsKeccak(u)
    /\ LET Check(w) ==
               /\ w.ok
               /\ Len(w.units) = 1 + Len(types[typeName])
               /\ IsKeccak(w.units[1])
               /\ \A i \in DOMAIN types[typeName] :
                      IF IsDefined(types, types[typeName][i].Type)
                      THEN /\ data[types[typeName][i].Name].k = "map"
                           /\ IsStructHash(types, types[typeName][i].Type.base,
                                           data[types[typeName][i].Name].v,
                                           w.units[i + 1])
                      ELSE IF types[typeName][i].Type.arr # <<>>
                      THEN IsKeccak(w.units[i + 1])
                      ELSE w.units[i + 1]
                               = encodePrimitive(types[typeName][i].Type,
                                                 data[types[typeName][i].Name]).out
       IN  Check(Words(Hashed(u), 1))

\* C25: when Hash succeeds, its result is keccak256 of 66 bytes: 0x19 0x01,
\* the 32-byte struct hash of the EIP712Domain value, the 32-byte struct hash
\* of the message under primaryType; every struct hash is keccak256 of the
\* 32-byte type hash and one 32-byte encoding per declared field in
\* declaration order.
DigestIsComposed ==
    (last.op = "Hash" /\ ~IsErr(last.err))
        => /\ IsKeccak(last.out)
           /\ Len(Hashed(last.out)) > 2
           /\ SubSeq(Hashed(last.out), 1, 2) = <<"0x19", "0x01">>
           /\ LET Check(w) ==
                      /\ w.ok
                      /\ Len(w.units) = 2
                      /\ IsStructHash(last.args[1], "EIP712Domain",
                                      domainToMap(Domains[last.dom]), w.units[1])
                      /\ IsStructHash(last.args[1], last.pt, MessageOf(last.mid),
                                      w.units[2])
              IN  Check(Words(Hashed(last.out), 3))

\* Hash succeeded on a message that holds a nested struct
NestedStructIsHashed ==
    /\ last.op = "Hash"
    /\ ~IsErr(last.err)
    /\ last.src.id = "nested"

-----------------------------------------------------------------------------
(* The cache of domain types: Signer and OptimizedSigner on the same inputs *)

\* (*OptimizedSigner).getCachedDomainTypes
CallGetCachedDomainTypes(dom) ==
    /\ \E r \in {getCachedDomainTypes(domainTypes, Domains[dom])} :
           /\ last' = [NoCall EXCEPT !.op = "getCachedDomainTypes", !.dom = dom,
                           !.out = r.out]
           /\ domainTypes' = r.cache
           /\ UNCHANGED <<heap, encCache, held>>
           /\ UNCHANGED rest

NextDomainCache ==
    \E dom \in DOMAIN Domains :
        \/ CallGetCachedDomainTypes(dom)
        \/ CallSignTypedData("k1", dom, Fresh("msgA"), "Message", "mA", <<"Message">>,
                             FALSE)
        \/ CallSignTypedDataOptimized("k1", dom, Fresh("msgA"), "Message", "mA",
                                      <<"Message">>, FALSE)

SpecDomainCache == Init /\ [][NextDomainCache]_vars

\* C27: after any earlier calls getCachedDomainTypes(domain) returns the
\* field list of buildDomainTypes(domain), SignTypedDataOptimized returns
\* the signature of SignTypedData for the same inputs, and no domain with
\* another set of present fields has the cache key of the call's domain.
DomainCacheIsTransparent ==
    /\ last.op = "getCachedDomainTypes"
           => last.out = buildDomainTypes(Domains[last.dom])
    /\ last.op = "SignTypedDataOptimized"
           => LET Same(r) == /\ IsErr(r.err) <=> IsErr(last.err)
                             /\ r.sig = last.sig
              IN  Same(SignTypedData(last.key, Domains[last.dom], last.before,
                                     last.pt, Messages[last.mid], <<"Message">>))
    /\ last.op \in {"getCachedDomainTypes", "SignTypedDataOptimized"}
           => \A d \in DOMAIN Domains :
                  domainCacheKey(Domains[d]) = domainCacheKey(Domains[last.dom])
                      => PresentFields(Domains[d]) = PresentFields(Domains[last.dom])

-----------------------------------------------------------------------------
(* Signing with a schema inferred by Signer and by OptimizedSigner *)

\* (*Signer).SignMessage
CallSignMessage(key, appName, mid) ==
    /\ \E r \in {SignMessage(key, appName, Messages[mid])} :
           /\ last' = [NoCall EXCEPT !.op = "SignMessage", !.key = key,
                           !.pt = "Message", !.mid = mid, !.args = <<appName>>,
                           !.before = [Message |-> inferTypes(Messages[mid])],
                           !.err = r.err, !.sig = r.sig, !.td = r.td]
           /\ UNCHANGED <<heap, encCache, domainTypes, held>>
           /\ UNCHANGED rest

\* (*OptimizedSigner).SignMessageOptimized
CallSignMessageOptimized(key, appName, mid) ==
    /\ \E r \in {SignMessageOptimized(key, appName, Messages[mid], domainTypes)} :
           /\ last' = [NoCall EXCEPT !.op = "SignMessageOptimized", !.key = key,
                           !.pt = "Message", !.mid = mid, !.args = <<appName>>,
                           !.before = [Message |-> inferTypesOptimized(Messages[mid])],
                           !.err = r.err, !.sig = r.sig, !.td = r.td]
           /\ domainTypes' = r.dcache
           /\ UNCHANGED <<heap, encCache, held>>
           /\ UNCHANGED rest

\* inferTypesOptimized
CallInferTypesOptimized(mid) ==
    /\ last' = [NoCall EXCEPT !.op = "inferTypesOptimized", !.mid = mid,
                    !.out = inferTypesOptimized(Messages[mid])]
    /\ UNCHANGED <<heap, encCache, domainTypes, held>>
    /\ UNCHANGED rest

OptimizedInferMessages == InferMessages \cup {"iSalt", "iEmpty"}

NextInferOptimized ==
    \E mid \in OptimizedInferMessages :
        \/ CallInferTypesOptimized(mid)
        \/ \E key \in Keys, appName \in {"App", "Bank"} :
               \/ CallSignMessage(key, appName, mid)
               \/ CallSignMessageOptimized(key, appName, mid)

SpecInferOptimized == Init /\ [][NextInferOptimized]_vars

\* C28: inferTypesOptimized(message) is the field list of inferTypes(message),
\* names, order and types, and SignMessageOptimized signs the digest that
\* SignMessage signs for the same appName and message.
InferTypesOptimizedIsInferTypes ==
    /\ last.op = "inferTypesOptimized" => last.out = inferTypes(Messages[last.mid])
    /\ last.op = "SignMessageOptimized"
           => LET Same(r) == /\ IsErr(r.err) <=> IsErr(last.err)
                             /\ r.sig = last.sig
              IN  Same(SignMessage(last.key, last.args[1], Messages[last.mid]))

-----------------------------------------------------------------------------
(* Recovery and the fields of the Signature: the caller overwrites R, S, V  *)
(* and Hash of the signature they hold, or moves the last byte of Bytes     *)
(* between v and v + 27, and recovers                                       *)

SignatureFields == {"R", "S", "V", "Hash"}

\* the caller assigns to fields of the Signature: sig.R = ..., sig.V = ...
AlterSignature(fields) ==
    /\ held.valid
    /\ \E sig \in {[R |-> IF "R" \in fields THEN HexEncode(<<"other r">>)
                          ELSE held.sig.R,
                    S |-> IF "S" \in fields THEN HexEncode(<<"other s">>)
                          ELSE held.sig.S,
                    \* 99 is the last byte of no Bytes the caller holds
                    V |-> IF "V" \in fields THEN 99 ELSE held.sig.V,
                    Hash |-> IF "Hash" \in fields THEN HexEncode(<<"other hash">>)
                             ELSE held.sig.Hash,
                    Bytes |-> held.sig.Bytes]} :
           /\ held' = [held EXCEPT !.sig = sig]
           /\ last' = [NoCall EXCEPT !.op = "altered", !.sig = sig]
    /\ UNCHANGED <<heap, encCache, domainTypes>>
    /\ UNCHANGED rest

\* Bytes with the last byte v replaced by v + 27, and v + 27 by v
OtherRecoveryByte(sig) ==
    [sig EXCEPT !.Bytes.digits.v = IF @ >= 27 THEN @ - 27 ELSE @ + 27]

\* the caller rewrites the last byte of sig.Bytes
MoveRecoveryByte ==
    /\ held.valid
    /\ held.sig.Bytes.digits.len = 65
    /\ held.sig.Bytes.digits.v \in {0, 1, 27, 28}
    /\ held' = [held EXCEPT !.sig = OtherRecoveryByte(@)]
    /\ last' = [NoCall EXCEPT !.op = "altered", !.sig = OtherRecoveryByte(held.sig)]
    /\ UNCHANGED <<heap, encCache, domainTypes>>
    /\ UNCHANGED rest

FieldCalls ==
    {Call(Fresh("msgA"), "Message", "mA"),
     Call(Fresh("msgB"), "Message", "mB")}

NextFields ==
    \/ \E fields \in (SUBSET SignatureFields) \ {{}} : AlterSignature(fields)
    \/ MoveRecoveryByte
    \/ \E sig \in {f \in ForgedSignatures : f.V \in {0, 1}} : ForgeSignature(sig)
    \/ \E key \in SignKeys, dom \in VerifyDomains, c \in FieldCalls :
           \E order \in Orders(DOMAIN TypesOf(c.src)) :
               \/ CallSignTypedData(key, dom, c.src, c.pt, c.mid, order, TRUE)
               \/ CallSignTypedDataFast(key, dom, c.src, c.pt, c.mid, order, TRUE)
    \/ \E dom \in VerifyDomains, c \in FieldCalls :
           \/ CallRecover(dom, c.src, c.pt, c.mid)
           \/ \E order \in Orders(DOMAIN TypesOf(c.src)) :
                  CallRecoverSignatureFast(dom, c.src, c.pt, c.mid, order)

SpecFields == Init /\ [][NextFields]_vars

\* the call of last on another Signature value, with the caches as they are
\* at the start of the process
RecoverAlone(sig) ==
    IF last.op = "Recover"
    THEN Recover(sig, Domains[last.dom], last.before, last.pt, MessageOf(last.mid))
    ELSE RecoverSignatureFast(sig, Domains[last.dom], last.before, last.pt,
                              MessageOf(last.mid), EmptyCache,
                              CHOOSE order \in Orders(DOMAIN last.before) : TRUE)

\* C30: the address Recover and RecoverSignatureFast return depends only on
\* sig.Bytes and on (domain, schema, primaryType, message): a Signature with
\* the same Bytes and other R, S, V and Hash recovers the same address, Bytes
\* with last byte v and with v + 27 (v in {0, 1}) recover the same address,
\* and the call leaves the Signature as it was.
RecoveryReadsBytesOnly ==
    last.op \in RecoverOps
        => LET Same(r) == /\ IsErr(r.err) <=> IsErr(last.err)
                          /\ r.addr = last.addr
           IN  /\ Same(RecoverAlone([NilSignature EXCEPT !.Bytes = last.sig.Bytes]))
               /\ (/\ last.sig.Bytes.digits.len = 65
                   /\ last.sig.Bytes.digits.v \in {0, 1, 27, 28})
                      => Same(RecoverAlone(OtherRecoveryByte(last.sig)))
               /\ held.sig = last.sig

====
